---- MODULE Spec2Model ----
(***************************************************************************)
(* Tree Mapper (obsidian-another-dendron-plugin): the change-event         *)
(* coordinator (EventUtils), the view controller (PluginMainPanel), the    *)
(* incremental reconciler (TreeRenderer.tryIncrementalUpdate), the tree    *)
(* builder and the expansion store (TreeState).                            *)
(*                                                                         *)
(* Strings are sequences of tokens: a path segment ("a", "b", ...), the    *)
(* separators "." and "/", and the extensions "md" and "png".  So the file *)
(* path a.b.md is <<"a", ".", "b", ".", "md">> and the map key a/b is      *)
(* <<"a", "/", "b">>; the two separators are different tokens.             *)
(***************************************************************************)
EXTENDS Integers, Sequences, FiniteSets, TLC

----------------------------------------------------------------------------
(* Bounds of the model *)

\* time that passes in one Tick step
TickLen == 150
\* accepted events recorded for one debounce window
MaxBurst == 2
\* length of the arrays handed to the store
MaxSeqLen == 2
\* registrations of a change callback that are recorded
MaxRegistrations == 2

(* Program constants *)

\* EventUtils.ts:31, the debounce delay
Wait == 300

----------------------------------------------------------------------------
(* Strings *)

Dot == "."
Slash == "/"
EmptyStr == << >>
\* the JavaScript value undefined, where a string is expected
Undefined == <<"undefined">>

\* JavaScript truthiness of an optional string
Truthy(s) == s # Undefined /\ s # EmptyStr

Max(x, y) == IF x >= y THEN x ELSE y
Min(x, y) == IF x <= y THEN x ELSE y

Prefix(s, n) == SubSeq(s, 1, n)
IsPrefix(p, s) == Len(p) <= Len(s) /\ Prefix(s, Len(p)) = p

\* String.prototype.split(sep): the pieces between the occurrences of sep
RECURSIVE SplitAcc(_, _, _)
SplitAcc(s, sep, cur) ==
    IF s = << >> THEN <<cur>>
    ELSE IF Head(s) = sep THEN <<cur>> \o SplitAcc(Tail(s), sep, << >>)
    ELSE SplitAcc(Tail(s), sep, Append(cur, Head(s)))

Split(s, sep) == SplitAcc(s, sep, << >>)

\* Array.prototype.join(sep)
RECURSIVE Join(_, _)
Join(parts, sep) ==
    IF parts = << >> THEN EmptyStr
    ELSE IF Len(parts) = 1 THEN parts[1]
    ELSE parts[1] \o <<sep>> \o Join(Tail(parts), sep)

\* s.replace(/\//g, '.')
ReplaceSlashes(s) == [i \in 1..Len(s) |-> IF s[i] = Slash THEN Dot ELSE s[i]]

\* s.replace(/\.md$/, '')
StripMd(s) ==
    IF Len(s) >= 2 /\ s[Len(s) - 1] = Dot /\ s[Len(s)] = "md"
    THEN Prefix(s, Len(s) - 2)
    ELSE s

\* the conversion of a file path to a dendron path
ToDendronPath(changedPath) == StripMd(ReplaceSlashes(changedPath))

\* TFile.extension: what follows the last dot of the file name
Extension(path) ==
    IF Len(path) >= 2 /\ path[Len(path) - 1] = Dot THEN path[Len(path)] ELSE ""

\* String.prototype.localeCompare on path segments (single tokens here)
Rank(tok) ==
    CASE tok = "a" -> 1 [] tok = "b" -> 2 [] tok = "c" -> 3 [] tok = "d" -> 4
      [] OTHER -> 9

----------------------------------------------------------------------------
(* The vault: the storage the plugin watches *)

F_ab == <<"a", ".", "b", ".", "md">>
F_abc == <<"a", ".", "b", ".", "c", ".", "md">>
F_b == <<"b", ".", "md">>
D_d == <<"d">>
F_da == <<"d", "/", "a", ".", "md">>
F_c == <<"c", ".", "md">>
F_png == <<"a", ".", "png">>
\* a path whose identifier has an empty segment
F_malformed == <<"a", ".", ".", "md">>

\* the markdown files the vault may hold
Files == {F_ab, F_abc, F_b}
\* the folder of a file, or EmptyStr for a file at the vault's root
FolderOf(f) == IF Slash \in {f[i] : i \in 1..Len(f)} THEN <<f[1]>> ELSE EmptyStr
FoldersOf(fs) == {FolderOf(f) : f \in fs} \ {EmptyStr}

\* TAbstractFile objects an event may carry: [path, isFile]
MdFile(p) == [path |-> p, isFile |-> TRUE]
OtherFiles == {[path |-> F_png, isFile |-> TRUE], [path |-> D_d, isFile |-> FALSE]}

----------------------------------------------------------------------------
(* Nodes and the tree builder (TreeBuilder.buildDendronStructure).         *)
(* A tree is a function from node locations to Node objects; a location is *)
(* the sequence of children-map keys from the root, the root being << >>.  *)

Null == <<"null">>
\* no item: what querySelector returns when nothing matches
NoItem == <<Null>>
Root == << >>
EmptyMap == << >>

NewNode(path, nodeType, resource) ==
    [path |-> path, nodeType |-> nodeType, obsidianResource |-> resource,
     isExpanded |-> FALSE]

\* node.children of the node at loc: the locations of its child nodes
Children(tree, loc) ==
    {c \in DOMAIN tree : Len(c) = Len(loc) + 1 /\ Prefix(c, Len(loc)) = loc}

\* the entities the vault lists: folders first, then markdown files
FileOrder == <<F_ab, F_abc, F_b, F_da>>
FolderOrder == <<D_d>>
FileEntity(f) == [identifier |-> ToDendronPath(f), kind |-> "file", ref |-> f]
FolderEntity(d) == [identifier |-> ReplaceSlashes(d), kind |-> "folder", ref |-> d]
GetMarkdownFiles(v) == SelectSeq(FileOrder, LAMBDA f : f \in v)
GetAllFolders(v) == SelectSeq(FolderOrder, LAMBDA d : d \in FoldersOf(v))

\* an entity added with every ancestor made a virtual node, the ones that
\* are there included
InsertEntityOverAncestors(tree, e) ==
    LET segs == Split(e.identifier, Dot)
        malformed == \E i \in 1..Len(segs) : segs[i] = EmptyStr
        ancestors == {Prefix(segs, i) : i \in 1..(Len(segs) - 1)}
        virtuals == [l \in ancestors |-> NewNode(Join(l, Dot), "virtual", Undefined)]
        final == segs :> NewNode(e.identifier, e.kind, e.ref)
    IN  IF malformed THEN tree ELSE final @@ virtuals @@ tree
\* an entity added without promotion: a node that is there stays as it is
InsertEntityKeepFirst(tree, e) ==
    LET segs == Split(e.identifier, Dot)
        malformed == \E i \in 1..Len(segs) : segs[i] = EmptyStr
        missing == {Prefix(segs, i) : i \in 1..(Len(segs) - 1)} \ DOMAIN tree
        virtuals == [l \in missing |-> NewNode(Join(l, Dot), "virtual", Undefined)]
        final == segs :> NewNode(e.identifier, e.kind, e.ref)
    IN  IF malformed THEN tree ELSE tree @@ final @@ virtuals
\* one entity added to the tree: missing ancestors become virtual nodes, the
\* node at the identifier takes the entity's kind and reference (a placeholder
\* already there is promoted in place; a real node is overwritten)
InsertEntity(tree, e) ==
    LET segs == Split(e.identifier, Dot)
        malformed == \E i \in 1..Len(segs) : segs[i] = EmptyStr
        missing == {Prefix(segs, i) : i \in 1..(Len(segs) - 1)} \ DOMAIN tree
        virtuals == [l \in missing |-> NewNode(Join(l, Dot), "virtual", Undefined)]
        kept == IF segs \in DOMAIN tree THEN tree[segs].isExpanded ELSE FALSE
        final == segs :> [NewNode(e.identifier, e.kind, e.ref) EXCEPT !.isExpanded = kept]
    IN  IF malformed THEN tree ELSE final @@ virtuals @@ tree

RECURSIVE InsertAll(_, _)
InsertAll(tree, entities) ==
    IF entities = << >> THEN tree
    ELSE InsertAll(InsertEntity(tree, Head(entities)), Tail(entities))

BuildDendronStructure(folders, files) ==
    InsertAll(EmptyMap,
              [i \in 1..Len(folders) |-> FolderEntity(folders[i])]
              \o [i \in 1..Len(files) |-> FileEntity(files[i])])

----------------------------------------------------------------------------
(* PluginMainPanel.buildNodePathMap *)

\* the pairs <<path, node>> set by buildNodePathMap(node, parentPath)
RECURSIVE NodePathPairs(_, _, _)
NodePathPairs(tree, node, parentPath) ==
    UNION { LET name == childNode[Len(childNode)]
                path == IF Truthy(parentPath) THEN parentPath \o <<Slash>> \o name
                        ELSE name
            IN  {<<path, childNode>>} \cup NodePathPairs(tree, childNode, path)
          : childNode \in Children(tree, node) }

BuildNodePathMap(tree) ==
    LET pairs == NodePathPairs(tree, Root, EmptyStr)
    IN  [k \in {p[1] : p \in pairs} |-> (CHOOSE p \in pairs : p[1] = k)[2]]

----------------------------------------------------------------------------
(* The rendered tree.  An item (.tm_tree-item) is named by its location:   *)
(* the data-path attributes of its ancestor items and of itself.           *)

Item(collapsed, hasChildren) ==
    [collapsed |-> collapsed, hasChildren |-> hasChildren, active |-> FALSE]

DataPath(item) == item[Len(item)]

\* document order of two different item locations (siblings are rendered
\* sorted by localeCompare of their keys, children follow their parent)
RECURSIVE Before(_, _)
Before(x, y) ==
    IF x = << >> THEN y # << >>
    ELSE IF y = << >> THEN FALSE
    ELSE IF Head(x) = Head(y) THEN Before(Tail(x), Tail(y))
    ELSE Rank(Head(x)[1]) < Rank(Head(y)[1])

\* root.querySelector('.tm_tree-item[data-path="p"]'): the first match in
\* document order among the given items, or NoItem
QuerySelector(items, p) ==
    LET found == {l \in items : DataPath(l) = p}
    IN  IF found = {} THEN NoItem
        ELSE CHOOSE l \in found : \A m \in found : m = l \/ Before(l, m)

\* the node locations below node
Descendants(tree, node) == {d \in DOMAIN tree : IsPrefix(node, d) /\ d # node}

\* where renderDendronNode(node, parentEl) puts the item of descendant d
ItemOf(node, parentEl, d) == parentEl \o SubSeq(d, Len(node) + 1, Len(d))

\* renderDendronNode without the recursive call: the children of node only
RenderDendronNodeShallow(tree, node, parentEl) ==
    LET desc == Children(tree, node)
        at(l) == CHOOSE d \in desc : ItemOf(node, parentEl, d) = l
    IN  [l \in {ItemOf(node, parentEl, d) : d \in desc} |->
            Item(~tree[at(l)].isExpanded, Children(tree, at(l)) # {})]

\* the items renderDendronNode(node, parentEl) creates below parentEl
RenderDendronNode(tree, node, parentEl) ==
    LET desc == Descendants(tree, node)
        at(l) == CHOOSE d \in desc : ItemOf(node, parentEl, d) = l
    IN  [l \in {ItemOf(node, parentEl, d) : d \in desc} |->
            Item(~tree[at(l)].isExpanded, Children(tree, at(l)) # {})]

\* the fileItemsMap entries addNode sets while node is rendered below parentEl
RenderedFileItems(tree, node, parentEl) ==
    LET files == {d \in Descendants(tree, node) : tree[d].nodeType = "file"}
        at(p) == CHOOSE d \in files : tree[d].obsidianResource = p
    IN  [p \in {tree[d].obsidianResource : d \in files} |->
            [loc |-> ItemOf(node, parentEl, at(p)), attached |-> TRUE]]

----------------------------------------------------------------------------
(* The panel's state.  The operations of the panel, the renderer and the   *)
(* view utilities are written on a record s of the fields they read and    *)
(* write:                                                                  *)
(*   dom                  the items in the container                       *)
(*   detached             the items removed from it that fileItemsMap      *)
(*                        still reaches, each with the length of the       *)
(*                        location of the top item of its fragment         *)
(*   fileItemsMap         file path -> [loc, attached], a rendered item    *)
(*   nodes                the Node objects of the last build               *)
(*   lastBuiltTree        Null, or Root                                    *)
(*   nodePathMap          key -> location of a Node object of nodes        *)
(*   expandedNodes, lastInteractionWasClick     fields of TreeState        *)
(*   trace                what the running handler has done so far         *)
(*   renderThrows         the render callback given to the reconciler      *)
(*                        throws                                           *)

\* trace.tried: tryIncrementalUpdate was called; trace.patched: it returned
\* true; trace.rebuilds: the calls of buildDendronTree; trace.saved and
\* trace.restored: saveExpandedState and restoreExpandedState were called
NoTrace ==
    [ran |-> FALSE, tried |-> FALSE, patched |-> FALSE, rebuilds |-> 0,
     saved |-> FALSE, restored |-> FALSE]

\* TreeState.addExpandedNode / TreeState.removeExpandedNode
AddExpandedNode(expanded, node) == expanded \cup {node}
RemoveExpandedNode(expanded, node) == expanded \ {node}

\* Array.from(set): the elements of the set, each once, in the order they
\* were inserted, which the set of the model does not keep: any order
ArrayFrom(set) ==
    {array \in [1..Cardinality(set) -> set] :
        {array[i] : i \in 1..Cardinality(set)} = set}
\* new Set(array)
NewSet(array) == {array[i] : i \in 1..Len(array)}

\* an export that leaves out the first element
GetExpandedNodesForSettingsLossy(expanded) ==
    {IF array = << >> THEN array ELSE Tail(array) : array \in ArrayFrom(expanded)}
\* TreeState.getExpandedNodesForSettings: the arrays it may return
GetExpandedNodesForSettings(expanded) == ArrayFrom(expanded)

\* a restore that keeps what was expanded
RestoreExpandedNodesFromSettingsMerge(expanded, nodes) == expanded \cup NewSet(nodes)
\* TreeState.restoreExpandedNodesFromSettings, TreeState.setExpandedNodes and
\* TreeState.clearExpandedNodes: the set they leave
RestoreExpandedNodesFromSettings(expanded, nodes) == NewSet(nodes)
SetExpandedNodes(expanded, nodes) == NewSet(nodes)
ClearExpandedNodes(expanded) == {}
\* TreeState.hasExpandedNodes and areAllNodesCollapsed
HasExpandedNodes(expanded) == Cardinality(expanded) > 0
AreAllNodesCollapsed(expanded) == ~HasExpandedNodes(expanded)

\* a registration that keeps a callback already registered
SetOnStateChangeCallbackKeepFirst(onStateChange, callback) ==
    IF onStateChange = Null THEN callback ELSE onStateChange
\* TreeState.setOnStateChangeCallback: the callback held afterwards
SetOnStateChangeCallback(onStateChange, callback) == callback
\* TreeState.triggerStateChange: the callbacks it invokes, in order
TriggerStateChange(onStateChange) ==
    IF onStateChange # Null THEN <<onStateChange>> ELSE << >>

\* a read that leaves the flag as it is
GetLastInteractionWasClickNoReset(lastInteractionWasClick) ==
    [wasClick |-> lastInteractionWasClick, flag |-> lastInteractionWasClick]
\* TreeState.getLastInteractionWasClick: the value returned and the flag left
GetLastInteractionWasClick(lastInteractionWasClick) ==
    [wasClick |-> lastInteractionWasClick, flag |-> FALSE]

\* TreeState.isNodeActive(node): this.activeFile?.path === node
IsNodeActive(file, node) == file # Null /\ file = node

\* PluginMainPanel.saveExpandedState
SaveExpandedState(s, container) ==
    LET fromDom == {DataPath(l) : l \in {i \in DOMAIN s.dom : ~s.dom[i].collapsed}}
        fromMap == {k \in DOMAIN s.nodePathMap : s.nodes[s.nodePathMap[k]].isExpanded}
    IN  [s EXCEPT !.expandedNodes =
                     (IF container THEN fromDom ELSE s.expandedNodes) \cup fromMap,
                  !.trace.saved = TRUE]

\* buildDendronTree without nodePathMap.clear(): the keys of the previous
\* lookup stay unless the new tree sets them
BuildDendronTreeNoClear(s, v) ==
    LET root == BuildDendronStructure(GetAllFolders(v), GetMarkdownFiles(v))
    IN  [s EXCEPT !.nodes = root,
                  !.lastBuiltTree = Root,
                  !.nodePathMap = BuildNodePathMap(root) @@ s.nodePathMap,
                  !.dom = RenderDendronNode(root, Root, << >>),
                  !.fileItemsMap = RenderedFileItems(root, Root, << >>) @@ s.fileItemsMap,
                  !.trace.rebuilds = @ + 1]
\* PluginMainPanel.buildDendronTree, into an empty container
BuildDendronTree(s, v) ==
    LET root == BuildDendronStructure(GetAllFolders(v), GetMarkdownFiles(v))
    IN  [s EXCEPT !.nodes = root,
                  !.lastBuiltTree = Root,
                  !.nodePathMap = BuildNodePathMap(root),
                  !.dom = RenderDendronNode(root, Root, << >>),
                  !.fileItemsMap = RenderedFileItems(root, Root, << >>) @@ s.fileItemsMap,
                  !.trace.rebuilds = @ + 1]

\* PluginMainPanel.restoreExpandedState
RestoreExpandedState(s, container) ==
    LET hit == {QuerySelector(DOMAIN s.dom, path) : path \in s.expandedNodes}
    IN  IF ~container THEN s
        ELSE [s EXCEPT !.dom = [l \in DOMAIN s.dom |->
                                  IF l \in hit THEN [s.dom[l] EXCEPT !.collapsed = FALSE]
                                  ELSE s.dom[l]],
                       !.trace.restored = TRUE]

\* the items from fileItem up to the top of its document or fragment
AncestorItems(s, ref) ==
    LET top == IF ref.attached THEN 1 ELSE s.detached[ref.loc].top
    IN  {Prefix(ref.loc, i) : i \in top..Len(ref.loc)}

\* ViewUtils.highlightActiveFile, the view being open
HighlightActiveFile(s, file) ==
    IF file = Null \/ file \notin DOMAIN s.fileItemsMap THEN s
    ELSE
      LET ref == s.fileItemsMap[file]
          chain == AncestorItems(s, ref)
          here == IF ref.attached THEN s.dom ELSE s.detached
          opened == {DataPath(l) : l \in {i \in chain : here[i].collapsed}}
          expand(items) == [l \in DOMAIN items |->
              IF l \in chain THEN [items[l] EXCEPT !.collapsed = FALSE] ELSE items[l]]
          activate(items) == [l \in DOMAIN items |->
              [items[l] EXCEPT !.active = ref.attached /\ l = ref.loc]]
      IN  [s EXCEPT !.dom = activate(IF ref.attached THEN expand(s.dom) ELSE s.dom),
                    !.detached = IF ref.attached THEN s.detached ELSE expand(s.detached),
                    !.lastInteractionWasClick = FALSE,
                    !.expandedNodes = s.expandedNodes \cup opened]

\* highlightActiveFile reaches its setTimeout: the item is found and
\* getLastInteractionWasClick returns false
ScrollScheduled(s, file) ==
    /\ file # Null
    /\ file \in DOMAIN s.fileItemsMap
    /\ ~GetLastInteractionWasClick(s.lastInteractionWasClick).wasClick

\* ViewUtils.expandAllNodes, the view being open: every item of the container
\* loses is-collapsed and gives its data-path to the store, every node of the
\* lookup gets isExpanded
ExpandAllNodes(s) ==
    LET looked == {s.nodePathMap[k] : k \in DOMAIN s.nodePathMap}
    IN  [s EXCEPT !.dom = [l \in DOMAIN s.dom |-> [s.dom[l] EXCEPT !.collapsed = FALSE]],
                  !.expandedNodes = @ \cup {DataPath(l) : l \in DOMAIN s.dom},
                  !.nodes = [n \in DOMAIN s.nodes |->
                               IF n \in looked THEN [s.nodes[n] EXCEPT !.isExpanded = TRUE]
                               ELSE s.nodes[n]]]

\* collapseAllNodes leaving the isExpanded flags of the nodes as they are
CollapseAllNodesKeepFlags(s) ==
    [s EXCEPT !.dom = [l \in DOMAIN s.dom |-> [s.dom[l] EXCEPT !.collapsed = TRUE]],
              !.expandedNodes = ClearExpandedNodes(@)]
\* ViewUtils.collapseAllNodes, the view being open
CollapseAllNodes(s) ==
    LET looked == {s.nodePathMap[k] : k \in DOMAIN s.nodePathMap}
    IN  [s EXCEPT !.dom = [l \in DOMAIN s.dom |-> [s.dom[l] EXCEPT !.collapsed = TRUE]],
                  !.expandedNodes = ClearExpandedNodes(@),
                  !.nodes = [n \in DOMAIN s.nodes |->
                               IF n \in looked THEN [s.nodes[n] EXCEPT !.isExpanded = FALSE]
                               ELSE s.nodes[n]]]

----------------------------------------------------------------------------
(* TreeRenderer.tryIncrementalUpdate *)

\* the loop with a break at the first key found: it keeps the shortest prefix
RECURSIVE ParentPathLoopFirst(_, _, _, _)
ParentPathLoopFirst(pathParts, keys, i, parentPath) ==
    IF i >= Len(pathParts) THEN parentPath
    ELSE LET testPath == Join(Prefix(pathParts, i + 1), Dot)
         IN  IF testPath \in keys THEN testPath
             ELSE ParentPathLoopFirst(pathParts, keys, i + 1, parentPath)

\* the loop over the prefixes of pathParts, from index i on
RECURSIVE ParentPathLoop(_, _, _, _)
ParentPathLoop(pathParts, keys, i, parentPath) ==
    IF i >= Len(pathParts) THEN parentPath
    ELSE LET testPath == Join(Prefix(pathParts, i + 1), Dot)
         IN  ParentPathLoop(pathParts, keys, i + 1,
                            IF testPath \in keys THEN testPath ELSE parentPath)

\* the parent path tryIncrementalUpdate settles on; EmptyStr when there is none
FindParentPath(changedPath, keys) ==
    ParentPathLoop(Split(ToDendronPath(changedPath), Dot), keys, 0, EmptyStr)

\* childrenContainer.empty() followed by renderCallback(node, childrenContainer)
Rerender(s, parentElement, node) ==
    LET removed == {l \in DOMAIN s.dom : IsPrefix(parentElement, l) /\ l # parentElement}
        rendered == RenderDendronNode(s.nodes, node, parentElement)
        files == RenderedFileItems(s.nodes, node, parentElement)
        stale == [p \in DOMAIN s.fileItemsMap |->
                    IF s.fileItemsMap[p].attached /\ s.fileItemsMap[p].loc \in removed
                    THEN [s.fileItemsMap[p] EXCEPT !.attached = FALSE]
                    ELSE s.fileItemsMap[p]]
        fim == files @@ stale
        gone == [l \in removed |->
                   [collapsed |-> s.dom[l].collapsed,
                    top |-> Len(parentElement) + 1]] @@ s.detached
        \* only the removed items a fileItemsMap entry still reaches are kept
        held == {l \in DOMAIN gone : \E p \in DOMAIN fim :
                    /\ ~fim[p].attached
                    /\ IsPrefix(l, fim[p].loc)
                    /\ Len(l) >= gone[fim[p].loc].top}
    IN  [s EXCEPT !.dom = rendered @@ [l \in DOMAIN s.dom \ removed |-> s.dom[l]],
                  !.fileItemsMap = fim,
                  !.detached = [l \in held |-> gone[l]]]

\* childrenContainer.empty() alone: what is left when renderCallback throws
EmptyChildrenContainer(s, parentElement) ==
    LET removed == {l \in DOMAIN s.dom : IsPrefix(parentElement, l) /\ l # parentElement}
        stale == [p \in DOMAIN s.fileItemsMap |->
                    IF s.fileItemsMap[p].attached /\ s.fileItemsMap[p].loc \in removed
                    THEN [s.fileItemsMap[p] EXCEPT !.attached = FALSE]
                    ELSE s.fileItemsMap[p]]
        gone == [l \in removed |->
                   [collapsed |-> s.dom[l].collapsed,
                    top |-> Len(parentElement) + 1]] @@ s.detached
        held == {l \in DOMAIN gone : \E p \in DOMAIN stale :
                    /\ ~stale[p].attached
                    /\ IsPrefix(l, stale[p].loc)
                    /\ Len(l) >= gone[stale[p].loc].top}
    IN  [s EXCEPT !.dom = [l \in DOMAIN s.dom \ removed |-> s.dom[l]],
                  !.fileItemsMap = stale,
                  !.detached = [l \in held |-> gone[l]]]

\* the statements of tryIncrementalUpdate without its catch clause:
\* [ok, s, parentPath, threw], threw telling that an error left the try
\* block (changedPath.replace on undefined, a throwing renderCallback)
TryBlock(s, changedPath, container) ==
    LET parentPath == FindParentPath(changedPath, DOMAIN s.nodePathMap)
        parentElement == QuerySelector(DOMAIN s.dom, parentPath)
        t == [s EXCEPT !.trace.tried = TRUE]
        failed == [ok |-> FALSE, s |-> t, parentPath |-> parentPath, threw |-> FALSE]
    IN  IF ~container \/ s.lastBuiltTree = Null
        THEN [ok |-> FALSE, s |-> t, parentPath |-> Null, threw |-> FALSE]
        ELSE IF changedPath = Undefined
        THEN [ok |-> FALSE, s |-> t, parentPath |-> Null, threw |-> TRUE]
        ELSE IF ~Truthy(parentPath) THEN failed
        ELSE IF parentElement = NoItem THEN failed
        ELSE IF ~s.dom[parentElement].hasChildren THEN failed
        ELSE IF parentPath \notin DOMAIN s.nodePathMap THEN failed
        ELSE IF s.renderThrows
        THEN [ok |-> FALSE, s |-> EmptyChildrenContainer(t, parentElement),
              parentPath |-> parentPath, threw |-> TRUE]
        ELSE [ok |-> TRUE,
              s |-> [Rerender(t, parentElement, s.nodePathMap[parentPath])
                        EXCEPT !.trace.patched = TRUE],
              parentPath |-> parentPath, threw |-> FALSE]

\* tryIncrementalUpdate with the catch clause left out
TryIncrementalUpdateNoCatch(s, changedPath, container) ==
    TryBlock(s, changedPath, container)

\* tryIncrementalUpdate(changedPath, container, lastBuiltTree, nodePathMap,
\* renderCallback): [ok, s, parentPath, threw] with ok the returned boolean,
\* parentPath the value of its local variable (Null before it is computed)
\* and threw telling that the call ended by an error instead of a return
TryIncrementalUpdate(s, changedPath, container) ==
    LET r == TryBlock(s, changedPath, container)
    IN  IF r.threw THEN [r EXCEPT !.ok = FALSE, !.threw = FALSE] ELSE r

----------------------------------------------------------------------------
(* PluginMainPanel.refresh *)

\* the full rebuild rendering the tree it has instead of building one
FullRebuildKeepTree(s, v, file) ==
    LET saved == SaveExpandedState(s, TRUE)
        emptied == [saved EXCEPT !.dom = EmptyMap, !.detached = EmptyMap,
                                 !.fileItemsMap = EmptyMap]
        built == [emptied EXCEPT !.dom = RenderDendronNode(emptied.nodes, Root, << >>),
                                 !.fileItemsMap = RenderedFileItems(emptied.nodes, Root, << >>),
                                 !.trace.rebuilds = @ + 1]
    IN  HighlightActiveFile(RestoreExpandedState(built, TRUE), file)
\* the rest of refresh once no incremental update has been applied
FullRebuild(s, v, file) ==
    LET saved == SaveExpandedState(s, TRUE)
        emptied == [saved EXCEPT !.dom = EmptyMap, !.detached = EmptyMap,
                                 !.fileItemsMap = EmptyMap]
        built == BuildDendronTree(emptied, v)
    IN  HighlightActiveFile(RestoreExpandedState(built, TRUE), file)

\* refresh without the fall-through to the full rebuild after a failed
\* incremental update
RefreshNoFallback(s0, changedPath, forceFullRefresh, container, v, file) ==
    LET s == [s0 EXCEPT !.trace = [NoTrace EXCEPT !.ran = TRUE]]
        inc == TryIncrementalUpdate(s, changedPath, container)
    IN  IF ~container THEN s
        ELSE IF Truthy(changedPath) /\ ~forceFullRefresh
             THEN IF inc.ok THEN HighlightActiveFile(inc.s, file) ELSE inc.s
        ELSE FullRebuild(s, v, file)

\* refresh trying the incremental update whatever its arguments are
RefreshAlwaysTry(s0, changedPath, forceFullRefresh, container, v, file) ==
    LET s == [s0 EXCEPT !.trace = [NoTrace EXCEPT !.ran = TRUE]]
        inc == TryIncrementalUpdate(s, changedPath, container)
    IN  IF ~container THEN s
        ELSE IF inc.ok THEN HighlightActiveFile(inc.s, file)
        ELSE FullRebuild(inc.s, v, file)

\* refresh without the test of this.container
RefreshNoContainerCheck(s0, changedPath, forceFullRefresh, container, v, file) ==
    LET s == [s0 EXCEPT !.trace = [NoTrace EXCEPT !.ran = TRUE]]
        inc == TryIncrementalUpdate(s, changedPath, container)
    IN  IF Truthy(changedPath) /\ ~forceFullRefresh
        THEN IF inc.ok THEN HighlightActiveFile(inc.s, file)
             ELSE FullRebuild(inc.s, v, file)
        ELSE FullRebuild(s, v, file)

\* refresh(changedPath, forceFullRefresh), with this.container, the vault and
\* the store's active file
Refresh(s0, changedPath, forceFullRefresh, container, v, file) ==
    LET s == [s0 EXCEPT !.trace = [NoTrace EXCEPT !.ran = TRUE]]
        inc == TryIncrementalUpdate(s, changedPath, container)
    IN  IF ~container THEN s
        ELSE IF Truthy(changedPath) /\ ~forceFullRefresh
             THEN IF inc.ok THEN HighlightActiveFile(inc.s, file)
                  ELSE FullRebuild(inc.s, v, file)
        ELSE FullRebuild(s, v, file)

----------------------------------------------------------------------------
(* EventUtils: the debounce timer.  A pending timer is a record            *)
(* [id, remaining, path, forceFullRefresh]: the time left and the          *)
(* arguments its callback passes to refreshCallback.  Timer id 0 is null.  *)

NoTimer == 0

NewTimerId(ts) ==
    LET used == {t.id : t \in ts}
    IN  CHOOSE i \in 1..(Cardinality(ts) + 1) :
            i \notin used /\ \A j \in 1..(i - 1) : j \in used

\* debounceRefresh without clearTimeout: the pending timer stays armed
DebounceRefreshNoClear(ts, timerId, path, forceFullRefresh, wait) ==
    LET id == NewTimerId(ts)
    IN  [timers |-> ts \cup {[id |-> id, remaining |-> wait, path |-> path,
                              forceFullRefresh |-> forceFullRefresh]},
         refreshTimerId |-> id]

\* debounceRefresh returning early while a timer is pending: the first
\* request of a burst is kept
DebounceRefreshKeepFirst(ts, timerId, path, forceFullRefresh, wait) ==
    LET id == NewTimerId(ts)
    IN  IF timerId # NoTimer THEN [timers |-> ts, refreshTimerId |-> timerId]
        ELSE [timers |-> ts \cup {[id |-> id, remaining |-> wait, path |-> path,
                                   forceFullRefresh |-> forceFullRefresh]},
              refreshTimerId |-> id]

\* debounceRefresh that clears a pending timer and arms a new one only when
\* none was pending
DebounceRefreshDrop(ts, timerId, path, forceFullRefresh, wait) ==
    LET id == NewTimerId(ts)
    IN  IF timerId # NoTimer
        THEN [timers |-> {t \in ts : t.id # timerId}, refreshTimerId |-> timerId]
        ELSE [timers |-> ts \cup {[id |-> id, remaining |-> wait, path |-> path,
                                   forceFullRefresh |-> forceFullRefresh]},
              refreshTimerId |-> id]

\* debounceRefresh(callback, wait): [timers, refreshTimerId] afterwards
DebounceRefresh(ts, timerId, path, forceFullRefresh, wait) ==
    LET cleared == IF timerId # NoTimer THEN {t \in ts : t.id # timerId} ELSE ts
        id == NewTimerId(cleared)
    IN  [timers |-> cleared \cup {[id |-> id, remaining |-> wait, path |-> path,
                                   forceFullRefresh |-> forceFullRefresh]},
         refreshTimerId |-> id]

\* the modify handler's condition without the test of the extension
IsMarkdownFileAnyFile(file) == file.isFile

\* the condition of the modify handler
IsMarkdownFile(file) == file.isFile /\ Extension(file.path) = "md"

\* the arguments each handler gives debouncedRefresh
Request(path, forceFullRefresh) == [path |-> path, forceFullRefresh |-> forceFullRefresh]
CreateRequest == Request(Undefined, TRUE)
\* the modify handler asking for a forced refresh
ModifyRequestForced(file) == Request(file.path, TRUE)
ModifyRequest(file) == Request(file.path, FALSE)
DeleteRequest == Request(Undefined, TRUE)
RenameRequest == Request(Undefined, TRUE)

----------------------------------------------------------------------------
VARIABLES
    vault,                    \* the markdown files in the vault
    container,                \* PluginMainPanel.container is not null
    timers,                   \* the pending timers of the runtime
    refreshTimerId,           \* EventUtils.refreshTimerId
    lastBuiltTree, nodes, nodePathMap, fileItemsMap,   \* PluginMainPanel
    dom, detached,            \* the rendered items
    expandedNodes, activeFile, lastInteractionWasClick, \* TreeState
    \* observations
    lastEvent,                \* the last vault event delivered to a handler
    window,                   \* the accepted events since the last dispatch
    fired,                    \* calls of refreshCallback since the window began
    lastCall,                 \* arguments of the last such call, and the time
                              \* since the last accepted event when it was made
    sinceEvent,               \* time since the last accepted event
    lastRefresh,              \* trace of the last call of refresh
    recording,                \* the observations above are being recorded
    arg, result,              \* the argument and the result of a direct call
    renderThrows,             \* the render callback given to that call throws
    onStateChange,            \* TreeState.onStateChange
    storeCall,                \* the last call of a method of TreeState
    storeHistory,             \* the registrations and activations so far
    plugin,                   \* TreeMapperPlugin: its settings, the saved data,
                              \* how far the plugin and its view have come, and
                              \* the expanded set the last onClose began with
    workspace                 \* app.workspace as the plugin sees it: the file-open
                              \* event on its way, the panel's own activeFile,
                              \* the scroll the last highlight asked for, the
                              \* leaves of the left sidebar and the calls of
                              \* activateView with the point each has reached

panelVars == <<lastBuiltTree, nodes, nodePathMap, fileItemsMap, dom, detached,
               expandedNodes, lastInteractionWasClick, lastRefresh>>
timerVars == <<timers, refreshTimerId>>
obsVars == <<lastEvent, window, fired, lastCall, sinceEvent, recording>>
vars == <<vault, container, timers, refreshTimerId, lastBuiltTree, nodes,
          nodePathMap, fileItemsMap, dom, detached, expandedNodes, activeFile,
          lastInteractionWasClick, lastEvent, window, fired, lastCall,
          sinceEvent, lastRefresh, recording, arg, result, renderThrows,
          onStateChange, storeCall, storeHistory, plugin, workspace>>
storeVars == <<onStateChange, storeCall, storeHistory>>
callVars == <<arg, result, renderThrows, storeVars, plugin, workspace>>
NoArg == EmptyStr
NoResult == [ok |-> FALSE, parentPath |-> Null, threw |-> FALSE, done |-> FALSE]

Panel ==
    [dom |-> dom, detached |-> detached, fileItemsMap |-> fileItemsMap,
     nodes |-> nodes, lastBuiltTree |-> lastBuiltTree, nodePathMap |-> nodePathMap,
     expandedNodes |-> expandedNodes,
     lastInteractionWasClick |-> lastInteractionWasClick, trace |-> NoTrace,
     renderThrows |-> renderThrows]

SetPanel(s) ==
    /\ dom' = s.dom
    /\ detached' = s.detached
    /\ fileItemsMap' = s.fileItemsMap
    /\ nodes' = s.nodes
    /\ lastBuiltTree' = s.lastBuiltTree
    /\ nodePathMap' = s.nodePathMap
    /\ expandedNodes' = s.expandedNodes
    /\ lastInteractionWasClick' = s.lastInteractionWasClick

\* a value of settings.expandedNodes, typed any: its shape (array, set,
\* string, number, object, null, undefined) and, for an array or a set, its
\* elements, for a string, the string
Value(shape, items) == [shape |-> shape, items |-> items]
ArrayValue(array) == Value("array", array)
\* types.ts, DEFAULT_SETTINGS.expandedNodes: new Set()
DefaultExpandedNodes == Value("set", << >>)
\* JavaScript truthiness of a value; the number is not zero
ValueTruthy(v) ==
    \/ v.shape \in {"array", "set", "object", "number"}
    \/ v.shape = "string" /\ v.items[1] # EmptyStr
\* Array.isArray(v) ? v : Array.from(v): a string gives its characters, a
\* number or an object without length gives []
AsArray(v) ==
    IF v.shape \in {"array", "set"} THEN v.items
    ELSE IF v.shape = "string" THEN [i \in 1..Len(v.items[1]) |-> <<v.items[1][i]>>]
    ELSE << >>
\* JSON.parse(JSON.stringify(v)): a Set is written as {}
AsJson(v) == IF v.shape = "set" THEN Value("object", << >>) ELSE v

\* the constructor of PluginMainPanel: the expanded set it leaves in the store
ConstructorRestore(expanded, v) ==
    IF ValueTruthy(v) THEN RestoreExpandedNodesFromSettings(expanded, AsArray(v))
    ELSE expanded

\* TreeState.instance before the first call of getInstance; the TreeState
\* objects are numbered in the order of their construction
NoInstance == 0
\* getInstance handing out a new object at every call
GetInstanceFresh(instance, created) ==
    [instance |-> created + 1, created |-> created + 1, returned |-> created + 1]
\* TreeState.getInstance: the static field and the number of objects
\* constructed after the call, and the object returned
GetInstance(instance, created) ==
    IF instance = NoInstance
    THEN [instance |-> created + 1, created |-> created + 1, returned |-> created + 1]
    ELSE [instance |-> instance, created |-> created, returned |-> instance]
\* the objects that keep a reference to the store: the panel, its renderer,
\* event utilities and view utilities, and the utilities these two make
Holders ==
    {"panel", "treeRenderer", "eventUtils", "viewUtils", "treeRenderer.eventUtils",
     "treeRenderer.viewUtils", "eventUtils.viewUtils"}
\* the constructor of PluginMainPanel: the store every holder has
ConstructorHolders(treeState) == [h \in Holders |-> treeState]

\* the plugin loaded and its panel constructed from a saved array of the
\* expanded set; threw: an exception left saveSettings; constructed: the
\* panels constructed so far, none, one, or more
LoadedPlugin(expanded) ==
    LET saved == ArrayValue(CHOOSE array \in ArrayFrom(expanded) : TRUE)
        got == GetInstance(NoInstance, 0)
    IN  [phase |-> "loaded", view |-> "constructed", settings |-> saved,
         data |-> saved, threw |-> FALSE, instance |-> got.instance,
         created |-> got.created, holders |-> ConstructorHolders(got.returned),
         constructed |-> 1, beforeClose |-> {}]

\* no file-open event on its way; fromClick: the file was opened by a click
\* in the tree
NoFileOpen == [file |-> Null, fromClick |-> FALSE]
\* no highlight made yet; cause: what called highlightActiveFile, scheduled:
\* it set the timeout that scrolls the item into view
NoScroll == [cause |-> "none", fromClick |-> FALSE, scheduled |-> FALSE]
\* the workspace with no event on its way; events: the delivery of the
\* workspace's events is followed
NoWorkspace ==
    [events |-> FALSE, fileOpen |-> NoFileOpen, panelActiveFile |-> Null,
     scroll |-> NoScroll, typedInCall |-> FALSE, leaves |-> << >>, calls |-> << >>]

\* no call of a method of the store made
NoStoreCall ==
    [op |-> "none", node |-> EmptyStr, nodes |-> << >>, file |-> Null,
     fromClick |-> FALSE, wasClick |-> FALSE, exported |-> << >>,
     fired |-> << >>, before |-> {}]
\* nothing registered, nothing made active, nothing toggled; while tracking,
\* toggled is kept, the identifiers of the nodes whose items toggleCollapse
\* was called for an odd number of times, expandedAll, the identifiers of the
\* nodes the lookup held at the calls of expandAllNodes, and storeCall follows
\* the calls the panel makes
NoStoreHistory ==
    [registered |-> << >>, lastSetClick |-> FALSE, reads |-> 0,
     tracking |-> FALSE, toggled |-> {}, expandedAll |-> {}]

NoEvent == [kind |-> "none", file |-> MdFile(EmptyStr)]
NoCall == [path |-> Undefined, forceFullRefresh |-> FALSE, elapsed |-> 0]

\* the settings the panel's constructor may find
SavedExpanded == {{}, {<<"a">>}}

Init ==
    /\ vault \in SUBSET Files
    /\ container = FALSE
    /\ timers = {}
    /\ refreshTimerId = NoTimer
    /\ lastBuiltTree = Null
    /\ nodes = EmptyMap
    /\ nodePathMap = EmptyMap
    /\ fileItemsMap = EmptyMap
    /\ dom = EmptyMap
    /\ detached = EmptyMap
    /\ expandedNodes \in SavedExpanded
    /\ activeFile = Null
    /\ lastInteractionWasClick = FALSE
    /\ lastEvent = NoEvent
    /\ window = << >>
    /\ fired = 0
    /\ lastCall = NoCall
    /\ sinceEvent = 0
    /\ lastRefresh = NoTrace
    /\ recording = FALSE
    /\ arg = NoArg
    /\ result = NoResult
    /\ renderThrows = FALSE
    /\ onStateChange = Null
    /\ storeCall = NoStoreCall
    /\ storeHistory = NoStoreHistory
    /\ plugin = LoadedPlugin(expandedNodes)
    /\ workspace = NoWorkspace

\* the same, the window of accepted events and the dispatches being recorded
InitEvents ==
    /\ vault \in SUBSET Files
    /\ container = FALSE
    /\ timers = {}
    /\ refreshTimerId = NoTimer
    /\ lastBuiltTree = Null
    /\ nodes = EmptyMap
    /\ nodePathMap = EmptyMap
    /\ fileItemsMap = EmptyMap
    /\ dom = EmptyMap
    /\ detached = EmptyMap
    /\ expandedNodes \in SavedExpanded
    /\ activeFile = Null
    /\ lastInteractionWasClick = FALSE
    /\ lastEvent = NoEvent
    /\ window = << >>
    /\ fired = 0
    /\ lastCall = NoCall
    /\ sinceEvent = 0
    /\ lastRefresh = NoTrace
    /\ recording = TRUE
    /\ arg = NoArg
    /\ result = NoResult
    /\ renderThrows = FALSE
    /\ onStateChange = Null
    /\ storeCall = NoStoreCall
    /\ storeHistory = NoStoreHistory
    /\ plugin = LoadedPlugin(expandedNodes)
    /\ workspace = NoWorkspace

----------------------------------------------------------------------------
(* PluginMainPanel.onOpen: the container, the event handlers, the first    *)
(* build                                                                   *)

OnOpen ==
    /\ plugin.view = "constructed"
    /\ ~container
    /\ lastBuiltTree = Null
    /\ container' = TRUE
    /\ SetPanel(BuildDendronTree(Panel, vault))
    /\ plugin' = [plugin EXCEPT !.view = "open"]
    /\ UNCHANGED <<vault, timers, refreshTimerId, activeFile, obsVars, lastRefresh,
                   arg, result, renderThrows, storeVars, workspace>>

----------------------------------------------------------------------------
(* The handlers registerFileEvents registers, each with the vault change   *)
(* that raises the event                                                   *)

\* debouncedRefresh(path, forceFullRefresh) for the accepted event e
DebouncedRefresh(e, req) ==
    LET d == DebounceRefresh(timers, refreshTimerId, req.path, req.forceFullRefresh, Wait)
        fresh == fired > 0
    IN  /\ timers' = d.timers
        /\ refreshTimerId' = d.refreshTimerId
        /\ lastRefresh' = NoTrace
        /\ IF recording
           THEN /\ fresh \/ Len(window) < MaxBurst
                /\ window' = IF fresh THEN <<e>> ELSE Append(window, e)
                /\ fired' = 0
                /\ lastCall' = NoCall
                /\ sinceEvent' = 0
                /\ lastEvent' = e
                /\ UNCHANGED recording
           ELSE UNCHANGED obsVars

Event(kind, file) == [kind |-> kind, file |-> file]

\* the handlers of the panel are registered on the vault: onOpen registers
\* them with app.vault.on, and onClose does not take them off
Registered == container \/ plugin.view = "closed"

OnCreate(f) ==
    /\ Registered
    /\ f \in Files \ vault
    /\ vault' = vault \cup {f}
    /\ DebouncedRefresh(Event("create", MdFile(f)), CreateRequest)
    /\ UNCHANGED <<container, lastBuiltTree, nodes, nodePathMap, fileItemsMap, dom,
                   detached, expandedNodes, activeFile, lastInteractionWasClick,
                   callVars>>

OnModify(file) ==
    /\ Registered
    /\ file.path \in vault \/ file \in OtherFiles
    /\ IF IsMarkdownFile(file)
       THEN DebouncedRefresh(Event("modify", file), ModifyRequest(file))
       ELSE /\ lastEvent' = IF recording THEN Event("modify", file) ELSE lastEvent
            /\ UNCHANGED <<timers, refreshTimerId, window, fired, lastCall,
                           sinceEvent, lastRefresh, recording>>
    /\ UNCHANGED <<vault, container, lastBuiltTree, nodes, nodePathMap, fileItemsMap,
                   dom, detached, expandedNodes, activeFile, lastInteractionWasClick,
                   callVars>>

OnDelete(f) ==
    /\ Registered
    /\ f \in vault
    /\ vault' = vault \ {f}
    /\ DebouncedRefresh(Event("delete", MdFile(f)), DeleteRequest)
    /\ UNCHANGED <<container, lastBuiltTree, nodes, nodePathMap, fileItemsMap, dom,
                   detached, expandedNodes, activeFile, lastInteractionWasClick,
                   callVars>>

OnRename(f, g) ==
    /\ Registered
    /\ f \in vault
    /\ g \in Files \ vault
    /\ vault' = (vault \ {f}) \cup {g}
    /\ DebouncedRefresh(Event("rename", MdFile(g)), RenameRequest)
    /\ UNCHANGED <<container, lastBuiltTree, nodes, nodePathMap, fileItemsMap, dom,
                   detached, expandedNodes, activeFile, lastInteractionWasClick,
                   callVars>>

----------------------------------------------------------------------------
(* Time and the timer callback *)

Tick ==
    /\ timers # {}
    /\ \A t \in timers : t.remaining > 0
    /\ timers' = {[t EXCEPT !.remaining = Max(0, @ - TickLen)] : t \in timers}
    /\ sinceEvent' = IF recording THEN Min(Wait, sinceEvent + TickLen) ELSE sinceEvent
    /\ UNCHANGED <<vault, container, refreshTimerId, panelVars, activeFile,
                   lastEvent, window, fired, lastCall, recording, callVars>>

\* the callback of setTimeout without its last statement: refreshTimerId
\* keeps the id of the timer that has run
TimerFireKeepId(t) ==
    /\ t \in timers
    /\ t.remaining = 0
    /\ timers' = timers \ {t}
    /\ refreshTimerId' = refreshTimerId
    /\ \E s \in {Refresh(Panel, t.path, t.forceFullRefresh, container, vault, activeFile)} :
          SetPanel(s) /\ lastRefresh' = s.trace
    /\ fired' = IF recording THEN Min(fired + 1, 2) ELSE fired
    /\ lastCall' = IF recording
                   THEN [path |-> t.path, forceFullRefresh |-> t.forceFullRefresh,
                         elapsed |-> sinceEvent]
                   ELSE lastCall
    /\ UNCHANGED <<vault, container, activeFile, lastEvent, window, sinceEvent,
                   recording, callVars>>

\* the callback of setTimeout in debounceRefresh: callback(), that is
\* refreshCallback(path, forceFullRefresh), then refreshTimerId = null
TimerFire(t) ==
    /\ t \in timers
    /\ t.remaining = 0
    /\ timers' = timers \ {t}
    /\ refreshTimerId' = NoTimer
    /\ \E s \in {Refresh(Panel, t.path, t.forceFullRefresh, container, vault, activeFile)} :
          SetPanel(s) /\ lastRefresh' = s.trace
    /\ fired' = IF recording THEN Min(fired + 1, 2) ELSE fired
    /\ lastCall' = IF recording
                   THEN [path |-> t.path, forceFullRefresh |-> t.forceFullRefresh,
                         elapsed |-> sinceEvent]
                   ELSE lastCall
    /\ UNCHANGED <<vault, container, activeFile, lastEvent, window, sinceEvent,
                   recording, callVars>>

----------------------------------------------------------------------------
(* The user: the click listener of the container *)

\* ViewUtils.toggleCollapse on the toggle button of the item at l
ToggleCollapse(l) ==
    /\ container
    /\ l \in DOMAIN dom
    /\ dom[l].hasChildren
    /\ LET path == DataPath(l)
           isCollapsed == dom[l].collapsed
       IN  /\ expandedNodes' = IF isCollapsed THEN AddExpandedNode(expandedNodes, path)
                               ELSE RemoveExpandedNode(expandedNodes, path)
           /\ dom' = [dom EXCEPT ![l].collapsed = ~isCollapsed]
           /\ nodes' = IF path \in DOMAIN nodePathMap
                       THEN [nodes EXCEPT ![nodePathMap[path]].isExpanded = ~isCollapsed]
                       ELSE nodes
    /\ storeHistory' =
          IF storeHistory.tracking /\ l \in DOMAIN nodes
          THEN [storeHistory EXCEPT !.toggled =
                   IF nodes[l].path \in @ THEN @ \ {nodes[l].path}
                   ELSE @ \cup {nodes[l].path}]
          ELSE storeHistory
    /\ storeCall' =
          IF storeHistory.tracking
          THEN [NoStoreCall EXCEPT
                   !.op = IF dom[l].collapsed THEN "addExpandedNode"
                          ELSE "removeExpandedNode",
                   !.node = DataPath(l),
                   !.fired = TriggerStateChange(onStateChange),
                   !.before = expandedNodes]
          ELSE storeCall
    /\ UNCHANGED <<vault, container, timerVars, lastBuiltTree, nodePathMap,
                   fileItemsMap, detached, activeFile, lastInteractionWasClick,
                   obsVars, lastRefresh, arg, result, renderThrows, plugin, workspace, onStateChange>>

\* ViewUtils.openFile(filePath) for a file of the vault
OpenFile(f) ==
    /\ container
    /\ f \in vault
    /\ workspace.events => workspace.fileOpen = NoFileOpen
    /\ activeFile' = f
    /\ LET s == [Panel EXCEPT !.lastInteractionWasClick = TRUE]
       IN  /\ SetPanel(HighlightActiveFile(s, f))
           /\ workspace' =
                  IF workspace.events
                  THEN [workspace EXCEPT
                           !.fileOpen = [file |-> f, fromClick |-> TRUE],
                           !.scroll = [cause |-> "openFile", fromClick |-> TRUE,
                                       scheduled |-> ScrollScheduled(s, f)]]
                  ELSE workspace
    /\ UNCHANGED <<vault, container, timerVars, obsVars, lastRefresh, arg, result,
                   renderThrows, storeVars, plugin>>

\* ViewUtils.highlightFile(file) for a file of the vault: the file is
\* revealed in the tree without a click
HighlightFile(f) ==
    /\ container
    /\ f \in vault
    /\ activeFile' = f
    /\ LET s == [Panel EXCEPT !.lastInteractionWasClick = FALSE]
       IN  /\ SetPanel(HighlightActiveFile(s, f))
           /\ workspace' =
                  IF workspace.events
                  THEN [workspace EXCEPT
                           !.scroll = [cause |-> "highlightFile", fromClick |-> FALSE,
                                       scheduled |-> ScrollScheduled(s, f)]]
                  ELSE workspace
    /\ UNCHANGED <<vault, container, timerVars, obsVars, lastRefresh, arg, result,
                   renderThrows, storeVars, plugin>>

\* a file of the vault is opened elsewhere in the workspace (a link, the
\* quick switcher): the workspace will raise file-open for it
OpenElsewhere(f) ==
    /\ workspace.events
    /\ workspace.fileOpen = NoFileOpen
    /\ f \in vault
    /\ workspace' = [workspace EXCEPT !.fileOpen = [file |-> f, fromClick |-> FALSE]]
    /\ UNCHANGED <<vault, container, timerVars, panelVars, activeFile, obsVars, arg,
                   result, renderThrows, storeVars, plugin>>

\* the handler of the workspace's file-open event registered by onOpen
OnFileOpen ==
    /\ container
    /\ workspace.fileOpen # NoFileOpen
    /\ SetPanel(HighlightActiveFile(Panel, activeFile))
    /\ workspace' = [workspace EXCEPT
                        !.fileOpen = NoFileOpen,
                        !.panelActiveFile = workspace.fileOpen.file,
                        !.scroll = [cause |-> "file-open",
                                    fromClick |-> workspace.fileOpen.fromClick,
                                    scheduled |-> ScrollScheduled(Panel, activeFile)]]
    /\ UNCHANGED <<vault, container, timerVars, activeFile, obsVars, lastRefresh, arg,
                   result, renderThrows, storeVars, plugin>>

\* the click on the header button in its expand-all state, or the command
ExpandAll ==
    /\ container
    /\ SetPanel(ExpandAllNodes(Panel))
    /\ storeHistory' =
          IF storeHistory.tracking
          THEN [storeHistory EXCEPT !.expandedAll =
                   @ \cup {nodes[nodePathMap[k]].path : k \in DOMAIN nodePathMap}]
          ELSE storeHistory
    /\ storeCall' =
          IF storeHistory.tracking
          THEN [NoStoreCall EXCEPT !.op = "expandAllNodes", !.before = expandedNodes]
          ELSE storeCall
    /\ UNCHANGED <<vault, container, timerVars, activeFile, obsVars, lastRefresh,
                   arg, result, renderThrows, plugin, workspace, onStateChange>>

\* the click on the header button in its collapse-all state, or the command
CollapseAll ==
    /\ container
    /\ SetPanel(CollapseAllNodes(Panel))
    /\ storeCall' =
          IF storeHistory.tracking
          THEN [NoStoreCall EXCEPT !.op = "collapseAllNodes", !.before = expandedNodes]
          ELSE storeCall
    /\ UNCHANGED <<vault, container, timerVars, activeFile, obsVars, lastRefresh,
                   arg, result, renderThrows, plugin, workspace, onStateChange, storeHistory>>

----------------------------------------------------------------------------
Next ==
    \/ OnOpen
    \/ \E f \in Files : OnCreate(f)
    \/ \E file \in {MdFile(f) : f \in Files} \cup OtherFiles : OnModify(file)
    \/ \E f \in Files : OnDelete(f)
    \/ \E f, g \in Files : OnRename(f, g)
    \/ Tick
    \/ \E t \in timers : TimerFire(t)
    \/ \E l \in DOMAIN dom : ToggleCollapse(l)
    \/ \E f \in Files : OpenFile(f)
    \/ \E f \in Files : HighlightFile(f)

Spec == Init /\ [][Next]_vars

\* the coordinator and the controller without the user
NextEvents ==
    \/ OnOpen
    \/ \E f \in Files : OnCreate(f)
    \/ \E file \in {MdFile(f) : f \in Files} \cup OtherFiles : OnModify(file)
    \/ \E f \in Files : OnDelete(f)
    \/ \E f, g \in Files : OnRename(f, g)
    \/ Tick
    \/ \E t \in timers : TimerFire(t)

SpecEvents == InitEvents /\ [][NextEvents]_vars

\* the runtime takes a timer whose delay has elapsed off its table to run the
\* callback: of the steps of NextEvents these are the TimerFire steps, and
\* one is possible exactly when a timer is due
RunDueTimer == \E t \in timers : t.remaining = 0 /\ timers' = timers \ {t}

\* the same under the scheduling of the runtime: time passes, and a timer
\* whose delay has elapsed runs its callback
SpecEventsFair ==
    /\ SpecEvents
    /\ WF_vars(Tick)
    /\ WF_timers(RunDueTimer)

----------------------------------------------------------------------------
(* TreeRenderer.tryIncrementalUpdate as a function of its arguments: one   *)
(* call on a snapshot, a lookup and a changed path                         *)

\* the vaults a snapshot is built from, and the changed paths
PatchFiles == Files \cup {F_da}
PatchPaths == {F_ab, F_abc, F_b, F_da, F_c, F_malformed, Undefined}

\* a lookup whose keys are the identifiers of the nodes at locs
IdentifierMap(tree, locs) ==
    [k \in {tree[l].path : l \in locs} |-> CHOOSE l \in locs : tree[l].path = k]

\* the lookups given for a snapshot: the one buildNodePathMap makes of it,
\* and those keyed by the identifiers of some of its nodes
Lookups(tree) ==
    {BuildNodePathMap(tree)} \cup {IdentifierMap(tree, locs) : locs \in SUBSET DOMAIN tree}

InitPatch ==
    /\ vault \in SUBSET PatchFiles
    /\ container \in BOOLEAN
    /\ timers = {}
    /\ refreshTimerId = NoTimer
    /\ lastBuiltTree \in {Null, Root}
    /\ nodes = BuildDendronStructure(GetAllFolders(vault), GetMarkdownFiles(vault))
    /\ nodePathMap \in Lookups(nodes)
    /\ fileItemsMap = RenderedFileItems(nodes, Root, << >>)
    /\ dom = RenderDendronNode(nodes, Root, << >>)
    /\ detached = EmptyMap
    /\ expandedNodes = {}
    /\ activeFile = Null
    /\ lastInteractionWasClick = FALSE
    /\ lastEvent = NoEvent
    /\ window = << >>
    /\ fired = 0
    /\ lastCall = NoCall
    /\ sinceEvent = 0
    /\ lastRefresh = NoTrace
    /\ recording = FALSE
    /\ arg \in PatchPaths
    /\ result = NoResult
    /\ renderThrows \in BOOLEAN
    /\ onStateChange = Null
    /\ storeCall = NoStoreCall
    /\ storeHistory = NoStoreHistory
    /\ plugin = LoadedPlugin(expandedNodes)
    /\ workspace = NoWorkspace

CallTryIncrementalUpdate ==
    /\ ~result.done
    /\ arg # NoArg
    /\ LET r == TryIncrementalUpdate(Panel, arg, container)
       IN  /\ SetPanel(r.s)
           /\ lastRefresh' = r.s.trace
           /\ result' = [ok |-> r.ok, parentPath |-> r.parentPath, threw |-> r.threw,
                          done |-> TRUE]
    /\ UNCHANGED <<vault, container, timerVars, activeFile, obsVars, arg, renderThrows,
                   storeVars, plugin, workspace>>

NextPatch == CallTryIncrementalUpdate

SpecPatch == InitPatch /\ [][NextPatch]_vars

----------------------------------------------------------------------------
(* TreeState, the store, by itself: one action for each call of a method   *)
(* that changes it or whose result a property below is about.  storeCall   *)
(* holds the method called last, its arguments, what it returned, the      *)
(* callbacks it invoked and the expanded set it found; storeHistory the    *)
(* callbacks registered so far, whether the last setActiveFile was from a  *)
(* click and the reads of the flag since then: none, one, or more.         *)

\* the strings the store is given as nodes, and the arrays of them
StoreNodes == {<<"a">>, <<"b">>, <<"a", ".", "b">>}
StoreArrays == UNION {[1..n -> StoreNodes] : n \in 0..MaxSeqLen}
\* the functions registered as change callback
Callbacks == {<<"A">>, <<"B">>}

InitStore ==
    /\ vault = Files
    /\ container = FALSE
    /\ timers = {}
    /\ refreshTimerId = NoTimer
    /\ lastBuiltTree = Null
    /\ nodes = EmptyMap
    /\ nodePathMap = EmptyMap
    /\ fileItemsMap = EmptyMap
    /\ dom = EmptyMap
    /\ detached = EmptyMap
    /\ expandedNodes = {}
    /\ activeFile = Null
    /\ lastInteractionWasClick = FALSE
    /\ lastEvent = NoEvent
    /\ window = << >>
    /\ fired = 0
    /\ lastCall = NoCall
    /\ sinceEvent = 0
    /\ lastRefresh = NoTrace
    /\ recording = FALSE
    /\ arg = NoArg
    /\ result = NoResult
    /\ renderThrows = FALSE
    /\ onStateChange = Null
    /\ storeCall = NoStoreCall
    /\ storeHistory = NoStoreHistory
    /\ plugin = LoadedPlugin(expandedNodes)
    /\ workspace = NoWorkspace

notStore == <<vault, container, timers, refreshTimerId, lastBuiltTree, nodes,
              nodePathMap, fileItemsMap, dom, detached, lastEvent, window, fired,
              lastCall, sinceEvent, lastRefresh, recording, arg, result,
              renderThrows, plugin, workspace>>

CallSetExpandedNodes(array) ==
    /\ expandedNodes' = SetExpandedNodes(expandedNodes, array)
    /\ storeCall' = [NoStoreCall EXCEPT !.op = "setExpandedNodes", !.nodes = array,
                                        !.before = expandedNodes]
    /\ UNCHANGED <<notStore, activeFile, lastInteractionWasClick, onStateChange,
                   storeHistory>>

CallSetOnStateChangeCallback(callback) ==
    /\ Len(storeHistory.registered) < MaxRegistrations
    /\ onStateChange' = SetOnStateChangeCallback(onStateChange, callback)
    /\ storeHistory' = [storeHistory EXCEPT !.registered = Append(@, callback)]
    /\ storeCall' = [NoStoreCall EXCEPT !.op = "setOnStateChangeCallback",
                                        !.before = expandedNodes]
    /\ UNCHANGED <<notStore, expandedNodes, activeFile, lastInteractionWasClick>>

CallGetExpandedNodesForSettings ==
    /\ \E array \in GetExpandedNodesForSettings(expandedNodes) :
          storeCall' = [NoStoreCall EXCEPT !.op = "getExpandedNodesForSettings",
                                          !.exported = array,
                                          !.before = expandedNodes]
    /\ UNCHANGED <<notStore, expandedNodes, activeFile, lastInteractionWasClick,
                   onStateChange, storeHistory>>

\* restoreExpandedNodesFromSettings(array), for an array of the bounded set
\* or the array the last getExpandedNodesForSettings returned
CallRestoreExpandedNodesFromSettings(array) ==
    /\ expandedNodes' = RestoreExpandedNodesFromSettings(expandedNodes, array)
    /\ storeCall' = [NoStoreCall EXCEPT !.op = "restoreExpandedNodesFromSettings",
                                        !.nodes = array,
                                        !.fired = TriggerStateChange(onStateChange),
                                        !.before = expandedNodes]
    /\ UNCHANGED <<notStore, activeFile, lastInteractionWasClick, onStateChange,
                   storeHistory>>

CallClearExpandedNodes ==
    /\ expandedNodes' = ClearExpandedNodes(expandedNodes)
    /\ storeCall' = [NoStoreCall EXCEPT !.op = "clearExpandedNodes",
                                        !.fired = TriggerStateChange(onStateChange),
                                        !.before = expandedNodes]
    /\ UNCHANGED <<notStore, activeFile, lastInteractionWasClick, onStateChange,
                   storeHistory>>

CallAddExpandedNode(node) ==
    /\ expandedNodes' = AddExpandedNode(expandedNodes, node)
    /\ storeCall' = [NoStoreCall EXCEPT !.op = "addExpandedNode", !.node = node,
                                        !.fired = TriggerStateChange(onStateChange),
                                        !.before = expandedNodes]
    /\ UNCHANGED <<notStore, activeFile, lastInteractionWasClick, onStateChange,
                   storeHistory>>

CallRemoveExpandedNode(node) ==
    /\ expandedNodes' = RemoveExpandedNode(expandedNodes, node)
    /\ storeCall' = [NoStoreCall EXCEPT !.op = "removeExpandedNode", !.node = node,
                                        !.fired = TriggerStateChange(onStateChange),
                                        !.before = expandedNodes]
    /\ UNCHANGED <<notStore, activeFile, lastInteractionWasClick, onStateChange,
                   storeHistory>>

CallSetActiveFile(file, fromClick) ==
    /\ activeFile' = file
    /\ lastInteractionWasClick' = fromClick
    /\ storeHistory' = [storeHistory EXCEPT !.lastSetClick = fromClick,
                                            !.reads = 0]
    /\ storeCall' = [NoStoreCall EXCEPT !.op = "setActiveFile", !.file = file,
                                        !.fromClick = fromClick,
                                        !.before = expandedNodes]
    /\ UNCHANGED <<notStore, expandedNodes, onStateChange>>

CallGetLastInteractionWasClick ==
    /\ LET r == GetLastInteractionWasClick(lastInteractionWasClick)
       IN  /\ lastInteractionWasClick' = r.flag
           /\ storeCall' = [NoStoreCall EXCEPT !.op = "getLastInteractionWasClick",
                                               !.wasClick = r.wasClick,
                                               !.before = expandedNodes]
    /\ storeHistory' = [storeHistory EXCEPT !.reads = Min(@ + 1, 2)]
    /\ UNCHANGED <<notStore, expandedNodes, activeFile, onStateChange>>

NextStore ==
    \/ \E array \in StoreArrays : CallSetExpandedNodes(array)
    \/ \E callback \in Callbacks : CallSetOnStateChangeCallback(callback)
    \/ CallGetExpandedNodesForSettings
    \/ \E array \in StoreArrays \cup {storeCall.exported} :
          CallRestoreExpandedNodesFromSettings(array)
    \/ CallClearExpandedNodes
    \/ \E node \in StoreNodes : CallAddExpandedNode(node)
    \/ \E node \in StoreNodes : CallRemoveExpandedNode(node)
    \/ \E file \in Files, fromClick \in BOOLEAN : CallSetActiveFile(file, fromClick)
    \/ CallGetLastInteractionWasClick

SpecStore == InitStore /\ [][NextStore]_vars

----------------------------------------------------------------------------
(* The panel opened on an empty store and then only toggled: the calls of  *)
(* toggleCollapse are tracked, and the store is exported at any time       *)

InitToggle ==
    /\ vault \in SUBSET PatchFiles
    /\ container = FALSE
    /\ timers = {}
    /\ refreshTimerId = NoTimer
    /\ lastBuiltTree = Null
    /\ nodes = EmptyMap
    /\ nodePathMap = EmptyMap
    /\ fileItemsMap = EmptyMap
    /\ dom = EmptyMap
    /\ detached = EmptyMap
    /\ expandedNodes = {}
    /\ activeFile = Null
    /\ lastInteractionWasClick = FALSE
    /\ lastEvent = NoEvent
    /\ window = << >>
    /\ fired = 0
    /\ lastCall = NoCall
    /\ sinceEvent = 0
    /\ lastRefresh = NoTrace
    /\ recording = FALSE
    /\ arg = NoArg
    /\ result = NoResult
    /\ renderThrows = FALSE
    /\ onStateChange = Null
    /\ storeCall = NoStoreCall
    /\ storeHistory = [NoStoreHistory EXCEPT !.tracking = TRUE]
    /\ plugin = LoadedPlugin(expandedNodes)
    /\ workspace = NoWorkspace

NextToggle ==
    \/ OnOpen
    \/ \E l \in DOMAIN dom : ToggleCollapse(l)
    \/ CallGetExpandedNodesForSettings

SpecToggle == InitToggle /\ [][NextToggle]_vars

\* the panel opened on an empty store, the header button, and the vault
\* changing under it: no item is toggled and no file made active
NextExpandAll ==
    \/ OnOpen
    \/ ExpandAll
    \/ CollapseAll
    \/ \E f \in Files : OnCreate(f)
    \/ \E f \in Files : OnDelete(f)
    \/ Tick
    \/ \E t \in timers : TimerFire(t)

SpecExpandAll == InitToggle /\ [][NextExpandAll]_vars

\* the panel opened on an empty store, with the workspace's file-open events
\* followed: files opened by a click in the tree, revealed, and opened
\* elsewhere, and items toggled
InitReveal ==
    /\ vault \in SUBSET Files
    /\ container = FALSE
    /\ timers = {}
    /\ refreshTimerId = NoTimer
    /\ lastBuiltTree = Null
    /\ nodes = EmptyMap
    /\ nodePathMap = EmptyMap
    /\ fileItemsMap = EmptyMap
    /\ dom = EmptyMap
    /\ detached = EmptyMap
    /\ expandedNodes = {}
    /\ activeFile = Null
    /\ lastInteractionWasClick = FALSE
    /\ lastEvent = NoEvent
    /\ window = << >>
    /\ fired = 0
    /\ lastCall = NoCall
    /\ sinceEvent = 0
    /\ lastRefresh = NoTrace
    /\ recording = FALSE
    /\ arg = NoArg
    /\ result = NoResult
    /\ renderThrows = FALSE
    /\ onStateChange = Null
    /\ storeCall = NoStoreCall
    /\ storeHistory = NoStoreHistory
    /\ plugin = LoadedPlugin(expandedNodes)
    /\ workspace = [NoWorkspace EXCEPT !.events = TRUE]

NextReveal ==
    \/ OnOpen
    \/ \E l \in DOMAIN dom : ToggleCollapse(l)
    \/ \E f \in Files : OpenFile(f)
    \/ \E f \in Files : HighlightFile(f)
    \/ \E f \in Files : OpenElsewhere(f)
    \/ OnFileOpen

SpecReveal == InitReveal /\ [][NextReveal]_vars

\* ---- the plugin's life: load, view constructed, opened, closed, unload ----

\* the values data.json can hold under expandedNodes: an array of
\* identifiers, a string, a number, an object, null, or no key at all
SavedValues ==
    {ArrayValue(array) : array \in StoreArrays}
        \cup {Value("string", <<StripMd(F_ab)>>), Value("string", <<EmptyStr>>),
              Value("number", << >>), Value("object", << >>), Value("null", << >>),
              Value("undefined", << >>)}

\* the process started, the plugin not yet loaded; the store is the fresh
\* singleton
InitPlugin ==
    /\ vault \in SUBSET Files
    /\ container = FALSE
    /\ timers = {}
    /\ refreshTimerId = NoTimer
    /\ lastBuiltTree = Null
    /\ nodes = EmptyMap
    /\ nodePathMap = EmptyMap
    /\ fileItemsMap = EmptyMap
    /\ dom = EmptyMap
    /\ detached = EmptyMap
    /\ expandedNodes = {}
    /\ activeFile = Null
    /\ lastInteractionWasClick = FALSE
    /\ lastEvent = NoEvent
    /\ window = << >>
    /\ fired = 0
    /\ lastCall = NoCall
    /\ sinceEvent = 0
    /\ lastRefresh = NoTrace
    /\ recording = FALSE
    /\ arg = NoArg
    /\ result = NoResult
    /\ renderThrows = FALSE
    /\ onStateChange = Null
    /\ storeCall = NoStoreCall
    /\ storeHistory = NoStoreHistory
    /\ \E saved \in SavedValues :
          plugin = [phase |-> "start", view |-> "none",
                    settings |-> Value("undefined", << >>), data |-> saved,
                    threw |-> FALSE, instance |-> NoInstance, created |-> 0,
                    holders |-> ConstructorHolders(NoInstance), constructed |-> 0,
                    beforeClose |-> {}]
    /\ workspace = NoWorkspace

\* TreeMapperPlugin.loadSettings, from onload: Object.assign({},
\* DEFAULT_SETTINGS, data); dendronView is null, so nothing is restored
LoadSettings ==
    /\ plugin.phase = "start"
    /\ plugin' = [plugin EXCEPT !.phase = "loaded",
                                !.settings = IF plugin.data.shape = "undefined"
                                             THEN DefaultExpandedNodes
                                             ELSE plugin.data]
    /\ UNCHANGED <<vault, container, timerVars, panelVars, activeFile, obsVars,
                   arg, result, renderThrows, storeVars, workspace>>

\* the view factory registered in onload, and the constructor of
\* PluginMainPanel: a new panel, the store restored from the settings
Constructor ==
    /\ plugin.phase = "loaded"
    /\ plugin.view \in {"none", "closed"}
    /\ SetPanel([Panel EXCEPT !.expandedNodes = ConstructorRestore(@, plugin.settings),
                              !.nodes = EmptyMap, !.nodePathMap = EmptyMap,
                              !.fileItemsMap = EmptyMap, !.lastBuiltTree = Null,
                              !.dom = EmptyMap, !.detached = EmptyMap])
    /\ container' = FALSE
    /\ LET got == GetInstance(plugin.instance, plugin.created)
       IN  plugin' = [plugin EXCEPT !.view = "constructed",
                                    !.instance = got.instance,
                                    !.created = got.created,
                                    !.holders = ConstructorHolders(got.returned),
                                    !.constructed = Min(@ + 1, 2)]
    /\ UNCHANGED <<vault, timerVars, activeFile, obsVars, lastRefresh, arg, result,
                   renderThrows, storeVars, workspace>>

\* PluginMainPanel.onClose; the elements of the view leave the document
OnClose ==
    /\ plugin.phase = "loaded"
    /\ plugin.view = "open"
    /\ LET s == SaveExpandedState(Panel, container)
       IN  /\ SetPanel([s EXCEPT !.lastBuiltTree = Null, !.fileItemsMap = EmptyMap,
                                 !.dom = EmptyMap, !.detached = EmptyMap])
           /\ plugin' = [plugin EXCEPT
                            !.view = "closed",
                            !.beforeClose = expandedNodes,
                            !.settings = ArrayValue(CHOOSE array \in ArrayFrom(s.expandedNodes) : TRUE)]
    /\ container' = FALSE
    /\ workspace' = [workspace EXCEPT !.panelActiveFile = Null]
    /\ UNCHANGED <<vault, timerVars, activeFile, obsVars, lastRefresh, arg, result,
                   renderThrows, storeVars>>

\* TreeMapperPlugin.onunload, saveSettings: with a view constructed,
\* dendronView.getExpandedNodesForSettings is not a function and saveData is
\* not reached; without one, the settings are written as they are
OnUnload ==
    /\ plugin.phase = "loaded"
    /\ plugin' = IF plugin.view # "none"
                 THEN [plugin EXCEPT !.phase = "unloaded", !.threw = TRUE]
                 ELSE [plugin EXCEPT !.phase = "unloaded", !.data = AsJson(plugin.settings)]
    /\ UNCHANGED <<vault, container, timerVars, panelVars, activeFile, obsVars,
                   arg, result, renderThrows, storeVars, workspace>>

NextPlugin ==
    \/ LoadSettings
    \/ Constructor
    \/ OnOpen
    \/ plugin.phase = "loaded" /\ \E l \in DOMAIN dom : ToggleCollapse(l)
    \/ OnClose
    \/ OnUnload

SpecPlugin == InitPlugin /\ [][NextPlugin]_vars

\* ---- the panel closed while the vault goes on changing ----

\* the coordinator, the controller and the user, the view closed at any moment: the
\* timer pending at that moment stays armed and the handlers stay registered
NextClose ==
    \/ OnOpen
    \/ \E f \in Files : OnCreate(f)
    \/ \E file \in {MdFile(f) : f \in Files} \cup OtherFiles : OnModify(file)
    \/ \E f \in Files : OnDelete(f)
    \/ \E f, g \in Files : OnRename(f, g)
    \/ Tick
    \/ \E t \in timers : TimerFire(t)
    \/ \E l \in DOMAIN dom : ToggleCollapse(l)
    \/ OnClose

SpecClose == Init /\ [][NextClose]_vars

\* ---- activateView and the leaves of the workspace ----

\* the most calls of activateView
MaxCalls == 4

\* the view type of a leaf that shows no view yet, and FILE_TREE_VIEW_TYPE
EmptyViewType == "empty"
FILE_TREE_VIEW_TYPE == "FILE_TREE_VIEW_TYPE"

\* workspace.getLeavesOfType(type): the places of the leaves of that type
GetLeavesOfType(leaves, type) == {i \in 1..Len(leaves) : leaves[i].type = type}
\* existing[0]
FirstLeaf(existing) == CHOOSE i \in existing : \A j \in existing : i <= j

\* a call of activateView: where it is, the leaf it has created (0: none),
\* the leaf it has found (0: none)
Call(pc, leaf, existing) == [pc |-> pc, leaf |-> leaf, existing |-> existing]

\* the plugin loaded, onload having detached the leaves of the type; no call
\* of activateView made yet. typedInCall: setViewState of this runtime gives
\* the leaf its view type before it hands control back, and not later, while
\* its promise is pending
InitActivate ==
    /\ vault = {}
    /\ container = FALSE
    /\ timers = {}
    /\ refreshTimerId = NoTimer
    /\ lastBuiltTree = Null
    /\ nodes = EmptyMap
    /\ nodePathMap = EmptyMap
    /\ fileItemsMap = EmptyMap
    /\ dom = EmptyMap
    /\ detached = EmptyMap
    /\ expandedNodes = {}
    /\ activeFile = Null
    /\ lastInteractionWasClick = FALSE
    /\ lastEvent = NoEvent
    /\ window = << >>
    /\ fired = 0
    /\ lastCall = NoCall
    /\ sinceEvent = 0
    /\ lastRefresh = NoTrace
    /\ recording = FALSE
    /\ arg = NoArg
    /\ result = NoResult
    /\ renderThrows = FALSE
    /\ onStateChange = Null
    /\ storeCall = NoStoreCall
    /\ storeHistory = NoStoreHistory
    /\ plugin = [phase |-> "loaded", view |-> "none",
                 settings |-> DefaultExpandedNodes, data |-> Value("undefined", << >>),
                 threw |-> FALSE, instance |-> NoInstance, created |-> 0,
                 holders |-> ConstructorHolders(NoInstance), constructed |-> 0,
                 beforeClose |-> {}]
    /\ \E typed \in BOOLEAN : workspace = [NoWorkspace EXCEPT !.typedInCall = typed]

\* activateView up to its await: the leaf found is revealed; without one,
\* getLeftLeaf(false) gives a new leaf or null, and setViewState is called on
\* the leaf
ActivateView ==
    /\ plugin.phase = "loaded"
    /\ Len(workspace.calls) < MaxCalls
    /\ LET existing == GetLeavesOfType(workspace.leaves, FILE_TREE_VIEW_TYPE)
           leaf == Len(workspace.leaves) + 1
       IN  IF existing # {}
           THEN workspace' =
                   [workspace EXCEPT
                       !.leaves[FirstLeaf(existing)].revealed = TRUE,
                       !.calls = Append(@, Call("done", 0, FirstLeaf(existing)))]
           ELSE \E given \in BOOLEAN :
                   workspace' =
                      IF given
                      THEN [workspace EXCEPT
                               !.leaves = Append(@, [type |-> IF workspace.typedInCall
                                                              THEN FILE_TREE_VIEW_TYPE
                                                              ELSE EmptyViewType,
                                                     revealed |-> FALSE]),
                               !.calls = Append(@, Call("await", leaf, 0))]
                      ELSE [workspace EXCEPT !.calls = Append(@, Call("done", 0, 0))]
    /\ UNCHANGED <<vault, container, timerVars, panelVars, activeFile, obsVars, arg,
                   result, renderThrows, storeVars, plugin>>

\* leaf.setViewState at work: the leaf of the call c gets the view of the type
SetViewState(c) ==
    /\ c \in 1..Len(workspace.calls)
    /\ workspace.calls[c].pc = "await"
    /\ workspace.leaves[workspace.calls[c].leaf].type = EmptyViewType
    /\ workspace' = [workspace EXCEPT
                        !.leaves[workspace.calls[c].leaf].type = FILE_TREE_VIEW_TYPE]
    /\ UNCHANGED <<vault, container, timerVars, panelVars, activeFile, obsVars, arg,
                   result, renderThrows, storeVars, plugin>>

\* activateView after its await, the promise of setViewState settled:
\* revealLeaf(leaf)
ActivateViewResume(c) ==
    /\ c \in 1..Len(workspace.calls)
    /\ workspace.calls[c].pc = "await"
    /\ workspace.leaves[workspace.calls[c].leaf].type = FILE_TREE_VIEW_TYPE
    /\ workspace' = [workspace EXCEPT
                        !.leaves[workspace.calls[c].leaf].revealed = TRUE,
                        !.calls[c].pc = "done"]
    /\ UNCHANGED <<vault, container, timerVars, panelVars, activeFile, obsVars, arg,
                   result, renderThrows, storeVars, plugin>>

\* the ribbon icon, the command and onLayoutReady call activateView; the
\* runtime goes on with the calls that wait
NextActivate ==
    \/ ActivateView
    \/ \E c \in 1..MaxCalls : SetViewState(c)
    \/ \E c \in 1..MaxCalls : ActivateViewResume(c)

SpecActivate == InitActivate /\ [][NextActivate]_vars

\* ---- the tree builder called on lists of entities ----

\* the longest list of entities given to the builder
MaxEntities == 3

F_d == <<"d", ".", "md">>
\* the entities of the lists: files, one of them with an empty segment in
\* its identifier, and a folder with the identifier of one of the files
BuildEntities ==
    {FileEntity(F_ab), FileEntity(F_abc), FileEntity(F_b), FileEntity(F_da),
     FileEntity(F_d), FileEntity(F_malformed), FolderEntity(D_d)}
\* the lists of different entities, and the orders of the places of a list
EntityLists ==
    UNION {{l \in [1..n -> BuildEntities] : \A i, j \in 1..n : l[i] = l[j] => i = j}
              : n \in 0..MaxEntities}
Orders(n) == {o \in [1..n -> 1..n] : \A i, j \in 1..n : o[i] = o[j] => i = j}

\* no call of the builder made
NoBuild == [done |-> FALSE, permutation |-> << >>, tree |-> EmptyMap, permuted |-> EmptyMap]

InitBuild ==
    /\ vault = {}
    /\ container = FALSE
    /\ timers = {}
    /\ refreshTimerId = NoTimer
    /\ lastBuiltTree = Null
    /\ nodes = EmptyMap
    /\ nodePathMap = EmptyMap
    /\ fileItemsMap = EmptyMap
    /\ dom = EmptyMap
    /\ detached = EmptyMap
    /\ expandedNodes = {}
    /\ activeFile = Null
    /\ lastInteractionWasClick = FALSE
    /\ lastEvent = NoEvent
    /\ window = << >>
    /\ fired = 0
    /\ lastCall = NoCall
    /\ sinceEvent = 0
    /\ lastRefresh = NoTrace
    /\ recording = FALSE
    /\ arg \in EntityLists
    /\ result = NoBuild
    /\ renderThrows = FALSE
    /\ onStateChange = Null
    /\ storeCall = NoStoreCall
    /\ storeHistory = NoStoreHistory
    /\ plugin = LoadedPlugin(expandedNodes)
    /\ workspace = NoWorkspace

\* the builder called on the list and on the same entities in another order
CallBuildDendronStructure ==
    /\ ~result.done
    /\ \E o \in Orders(Len(arg)) :
          LET permutation == [i \in 1..Len(arg) |-> arg[o[i]]]
          IN  result' = [done |-> TRUE, permutation |-> permutation,
                         tree |-> InsertAll(EmptyMap, arg),
                         permuted |-> InsertAll(EmptyMap, permutation)]
    /\ UNCHANGED <<vault, container, timerVars, panelVars, activeFile, obsVars, arg,
                   renderThrows, storeVars, plugin, workspace>>

NextBuild == CallBuildDendronStructure

SpecBuild == InitBuild /\ [][NextBuild]_vars

----------------------------------------------------------------------------
(* Properties of the change-event coordinator, under SpecEvents: window is *)
(* the burst of accepted events since the last dispatch, fired the number  *)
(* of calls of refreshCallback made for it, lastCall the arguments of the  *)
(* last call and the time that had passed since the last accepted event.   *)

StructuralKinds == {"create", "delete", "rename"}
LastOf(w) == w[Len(w)]
\* the request the handler of event e hands to the debounce
Requested(e) ==
    IF e.kind = "modify" THEN [path |-> e.file.path, forceFullRefresh |-> FALSE]
    ELSE [path |-> Undefined, forceFullRefresh |-> TRUE]
Dispatched == [path |-> lastCall.path, forceFullRefresh |-> lastCall.forceFullRefresh]
\* the timer refreshTimerId names is armed
Pending == \E t \in timers : t.id = refreshTimerId

\* C1: a burst of accepted events is dispatched exactly once: while the burst
\* has not been dispatched exactly one timer is armed, the one of its last
\* event, and it cannot fire before the delay has passed since that event; no
\* call is made when an event arrives; the one call is made only after the
\* full delay without a further event, with the request of the last event of
\* the burst, and no timer of a superseded request is left to fire.
C1_OneTrailingDispatch ==
    (recording /\ window # << >>) =>
        /\ fired <= 1
        /\ fired = 0 =>
              /\ Pending
              /\ Cardinality(timers) = 1
              /\ \A t \in timers :
                    /\ sinceEvent + t.remaining >= Wait
                    /\ [path |-> t.path, forceFullRefresh |-> t.forceFullRefresh]
                          = Requested(LastOf(window))
        /\ fired = 1 =>
              /\ timers = {}
              /\ refreshTimerId = NoTimer
              /\ lastCall.elapsed >= Wait
              /\ Dispatched = Requested(LastOf(window))

\* a burst of two events with different requests has been dispatched
C1_BurstDispatched ==
    /\ recording
    /\ Len(window) = 2
    /\ Requested(window[1]) # Requested(window[2])
    /\ fired = 1

\* C2: the dispatch of a window that holds a create, delete or rename event
\* is a forced full rebuild without identifier, wherever that event stands in
\* the window.
C2_StructuralEventWins ==
    (recording /\ fired = 1 /\ \E i \in 1..Len(window) : window[i].kind \in StructuralKinds)
        => (lastCall.forceFullRefresh /\ lastCall.path = Undefined)

\* C3: a window of a modify event for one file followed by a create event for
\* another is dispatched at most once, and its dispatch is a forced full
\* rebuild: no path, forceFullRefresh, no incremental update tried, one
\* rebuild.
C3_ModifyThenCreate ==
    (/\ recording
     /\ Len(window) = 2
     /\ window[1].kind = "modify"
     /\ window[2].kind = "create"
     /\ window[1].file # window[2].file)
        => /\ fired <= 1
           /\ fired = 1 =>
                 /\ lastCall.forceFullRefresh
                 /\ lastCall.path = Undefined
                 /\ ~lastRefresh.tried
                 /\ lastRefresh.rebuilds = 1

\* the window modify x, create z has been dispatched
C3_ModifyCreateDispatched ==
    /\ recording
    /\ Len(window) = 2
    /\ window[1].kind = "modify"
    /\ window[2].kind = "create"
    /\ window[1].file # window[2].file
    /\ fired = 1

\* C4: the dispatch of a window of one event is decided by the kind of the
\* event: the path of the file and forceFullRefresh = false for modify, no
\* path and forceFullRefresh = true for create, delete and rename.
C4_SingleEventRequest ==
    (recording /\ fired = 1 /\ Len(window) = 1) =>
        IF window[1].kind = "modify"
        THEN lastCall.path = window[1].file.path /\ ~lastCall.forceFullRefresh
        ELSE /\ window[1].kind \in StructuralKinds
             /\ lastCall.path = Undefined
             /\ lastCall.forceFullRefresh

\* a window of one modify event has been dispatched
C4_SingleModifyDispatched ==
    /\ recording
    /\ fired = 1
    /\ Len(window) = 1
    /\ window[1].kind = "modify"
    /\ Truthy(lastCall.path)

\* C5: a step in which a modify event for something that is not a markdown
\* file is delivered changes neither the timers nor refreshTimerId nor the
\* pending request, calls nothing, and leaves the panel as it is.
C5_NonMarkdownModifyIgnored ==
    [][(/\ recording
        /\ lastEvent' # lastEvent
        /\ lastEvent'.kind = "modify"
        /\ lastEvent'.file \in OtherFiles)
          => UNCHANGED <<timers, refreshTimerId, window, fired, lastCall, sinceEvent,
                         panelVars, vault, container>>]_vars

\* a modify event for a non-markdown entity was delivered while a request
\* was pending
C5_IgnoredWhilePending ==
    /\ recording
    /\ lastEvent.kind = "modify"
    /\ lastEvent.file \in OtherFiles
    /\ window # << >>
    /\ fired = 0
    /\ Pending

\* C6: under SpecEventsFair (time passes and due timers fire; a window takes
\* at most MaxBurst events, so the events of a burst stop), every window of
\* accepted events that has not been dispatched is eventually dispatched.
C6_EventuallyDispatched ==
    (recording /\ window # << >> /\ fired = 0) ~> (fired = 1)

\* a full window has been dispatched and no timer is left
C6_FullWindowDispatched ==
    /\ recording
    /\ Len(window) = MaxBurst
    /\ fired = 1
    /\ timers = {}

----------------------------------------------------------------------------
(* Properties of the controller and the reconciler *)

\* C7: a call of refresh with the container ends either with the incremental
\* update applied and no rebuild, or with exactly one full rebuild (state
\* saved, tree and lookup rebuilt, state restored); an incremental update
\* that was tried and returned false is followed by that rebuild.
C7_PatchOrOneRebuild ==
    lastRefresh.ran =>
        /\ \/ lastRefresh.patched /\ lastRefresh.rebuilds = 0
           \/ /\ ~lastRefresh.patched
              /\ lastRefresh.rebuilds = 1
              /\ lastRefresh.saved
              /\ lastRefresh.restored
              /\ lastBuiltTree = Root
        /\ (lastRefresh.tried /\ ~lastRefresh.patched) => lastRefresh.rebuilds = 1

\* a refresh whose incremental update returned false and that rebuilt
C7_FallbackTaken ==
    /\ lastRefresh.ran
    /\ lastRefresh.tried
    /\ ~lastRefresh.patched
    /\ lastRefresh.rebuilds = 1

\* C8: a dispatch whose last event is a create, delete or rename is forced,
\* and a refresh called with forceFullRefresh or without a path does not call
\* tryIncrementalUpdate and performs one full rebuild.
C8_ForcedNeverPatches ==
    (recording /\ fired = 1) =>
        /\ LastOf(window).kind \in StructuralKinds => lastCall.forceFullRefresh
        /\ (lastCall.forceFullRefresh \/ ~Truthy(lastCall.path)) =>
              /\ lastRefresh.ran
              /\ ~lastRefresh.tried
              /\ ~lastRefresh.patched
              /\ lastRefresh.rebuilds = 1

\* the dispatch of a delete event has rebuilt the tree
C8_DeleteRebuilt ==
    /\ recording
    /\ fired = 1
    /\ LastOf(window).kind = "delete"
    /\ lastRefresh.rebuilds = 1

\* the dot-prefixes of an identifier: the identifier cut before one of its
\* dots, and the identifier itself
DotPrefixes(id) ==
    {Prefix(id, n) : n \in {m \in 1..Len(id) : m = Len(id) \/ id[m + 1] = Dot}}
\* the dot-prefixes of the changed identifier that are keys of the lookup
KeyPrefixes == DotPrefixes(ToDendronPath(arg)) \cap DOMAIN nodePathMap

\* C9: under SpecPatch, a call of tryIncrementalUpdate that has a container
\* and a snapshot settles on the longest dot-prefix of the changed identifier
\* that is a key of the lookup; when no dot-prefix is a key it returns false;
\* and a call that returns true has patched below that longest prefix.
C9_LongestKeyPrefix ==
    result.done =>
        /\ KeyPrefixes = {} => ~result.ok
        /\ (container /\ lastBuiltTree # Null /\ KeyPrefixes # {}) =>
              /\ result.parentPath \in KeyPrefixes
              /\ \A k \in KeyPrefixes : Len(k) <= Len(result.parentPath)
        /\ result.ok =>
              /\ result.parentPath \in KeyPrefixes
              /\ \A k \in KeyPrefixes : Len(k) <= Len(result.parentPath)
              /\ lastRefresh.patched

\* a call for which two dot-prefixes are keys has settled on the longer
C9_DeeperPrefixChosen ==
    /\ result.done
    /\ container
    /\ lastBuiltTree # Null
    /\ Cardinality(KeyPrefixes) >= 2
    /\ \E k \in KeyPrefixes : Len(k) < Len(result.parentPath)

\* C10: every key of nodePathMap is the dot-segmented identifier of the node
\* stored under it.
C10_KeyIsIdentifier ==
    \A k \in DOMAIN nodePathMap : nodes[nodePathMap[k]].path = k

\* C11: under SpecPatch, every call of tryIncrementalUpdate ends by returning
\* a boolean and never by an error: without container, without snapshot, on
\* an undefined or malformed path, on a lookup miss, on a missing item and
\* when the render callback throws, where it returns false.
C11_NeverThrows ==
    result.done =>
        /\ ~result.threw
        /\ result.ok \in BOOLEAN
        /\ (arg = Undefined \/ renderThrows) => ~result.ok

\* a call whose render callback threw after the children container had been
\* emptied has returned false
C11_RenderErrorCaught ==
    /\ result.done
    /\ renderThrows
    /\ ~result.ok
    /\ Truthy(result.parentPath)
    /\ LET el == QuerySelector(DOMAIN dom, result.parentPath)
       IN  /\ el # NoItem
           /\ dom[el].hasChildren
           /\ \A l \in DOMAIN dom : IsPrefix(el, l) => l = el

\* the items strictly below the item at loc
Below(loc, items) == {l \in items : IsPrefix(loc, l) /\ l # loc}

\* C12: a call of tryIncrementalUpdate that returns true leaves the snapshot
\* and the lookup as they were, and leaves every rendered item that is not
\* below the item of the matched ancestor (the node the lookup holds for the
\* chosen prefix) as it was.
C12_PatchFrame ==
    [][result'.ok =>
          LET matched == nodePathMap[result'.parentPath]
              outside == (DOMAIN dom \cup DOMAIN dom') \ Below(matched, DOMAIN dom \cup DOMAIN dom')
          IN  /\ nodes' = nodes
              /\ nodePathMap' = nodePathMap
              /\ lastBuiltTree' = lastBuiltTree
              /\ \A l \in outside :
                    l \in DOMAIN dom /\ l \in DOMAIN dom' /\ dom'[l] = dom[l]]_vars

\* the same frame taken around the item querySelector found for the chosen
\* prefix: a call that returns true changes rendered items only below it
C12_FoundItemFrame ==
    [][result'.ok =>
          LET found == QuerySelector(DOMAIN dom, result'.parentPath)
              outside == (DOMAIN dom \cup DOMAIN dom') \ Below(found, DOMAIN dom \cup DOMAIN dom')
          IN  /\ nodes' = nodes
              /\ nodePathMap' = nodePathMap
              /\ lastBuiltTree' = lastBuiltTree
              /\ \A l \in outside :
                    l \in DOMAIN dom /\ l \in DOMAIN dom' /\ dom'[l] = dom[l]]_vars

\* the tree a full rebuild makes of the entity list of the vault
FreshTree == BuildDendronStructure(GetAllFolders(vault), GetMarkdownFiles(vault))

----------------------------------------------------------------------------
(* Properties of the store, under SpecStore *)

\* C14: a call of restoreExpandedNodesFromSettings whose argument is an
\* array getExpandedNodesForSettings returns for the store as the call finds
\* it leaves the expanded set as it was.
C14_RoundTripFixedPoint ==
    (/\ storeCall.op = "restoreExpandedNodesFromSettings"
     /\ storeCall.nodes \in GetExpandedNodesForSettings(storeCall.before))
    => expandedNodes = storeCall.before
\* the store held two nodes and was restored from its own export
C14_RoundTripTaken ==
    /\ storeCall.op = "restoreExpandedNodesFromSettings"
    /\ storeCall.nodes \in GetExpandedNodesForSettings(storeCall.before)
    /\ Cardinality(storeCall.before) = 2

\* C15: under SpecToggle, the panel opened on an empty store and only
\* toggleCollapse called since, the array getExpandedNodesForSettings returns
\* holds exactly the identifiers of the nodes toggled an odd number of times.
C15_ExportIsOddToggled ==
    storeCall.op = "getExpandedNodesForSettings"
    => NewSet(storeCall.exported) = storeHistory.toggled

----------------------------------------------------------------------------
(* Properties of the activation of a file, under Spec *)

\* the strict ancestors of an identifier: its dot-prefixes but itself
StrictAncestors(id) == DotPrefixes(id) \ {id}
\* the node of identifier p is in the expanded set, under its identifier or
\* under the key of its item, the last segment
StoredExpanded(expanded, p) == p \in expanded \/ <<p[Len(p)]>> \in expanded

\* C16: a step that makes a file active (openFile from a click, highlightFile
\* for a reveal) leaves every strict ancestor of the file's identifier in the
\* expanded set of the store, whatever the set and the items were before.
C16_ActiveAncestorsExpanded ==
    [][activeFile' # activeFile =>
         \A p \in StrictAncestors(ToDendronPath(activeFile')) :
            StoredExpanded(expandedNodes', p)]_vars

----------------------------------------------------------------------------
(* Properties of the store, under SpecStore (continued) *)

\* C17: getLastInteractionWasClick returns true exactly when the last
\* setActiveFile was from a click and this is the first read since; it leaves
\* the flag false, so a second read without a setActiveFile returns false.
C17_ClickFlagOneShot ==
    storeCall.op = "getLastInteractionWasClick"
    => /\ storeCall.wasClick = (storeHistory.lastSetClick /\ storeHistory.reads = 1)
       /\ ~lastInteractionWasClick
\* a file was made active by a click and the flag read twice: the second read
\* returned false
C17_SecondReadAfterClick ==
    /\ storeCall.op = "getLastInteractionWasClick"
    /\ storeHistory.lastSetClick
    /\ storeHistory.reads = 2
    /\ ~storeCall.wasClick

\* the methods of the store that change its state
Mutators ==
    {"addExpandedNode", "removeExpandedNode", "clearExpandedNodes",
     "restoreExpandedNodesFromSettings", "setExpandedNodes", "setActiveFile"}

\* C18: a call of a mutating method of the store made while a change callback
\* is registered invokes that callback before it returns.
C18_MutatorsNotify ==
    (storeCall.op \in Mutators /\ onStateChange # Null) => storeCall.fired # << >>

\* the mutators that end with triggerStateChange
Notifying ==
    {"addExpandedNode", "removeExpandedNode", "clearExpandedNodes",
     "restoreExpandedNodesFromSettings"}
\* Array.prototype.at(-1): the last element
Last(array) == array[Len(array)]

\* C19: the store holds one callback, the one registered last: no call invokes
\* any other, and a call of a notifying mutator after callbacks were
\* registered invokes the last of them, once.
C19_LastRegistrationWins ==
    /\ storeHistory.registered # << >> =>
          /\ onStateChange = Last(storeHistory.registered)
          /\ NewSet(storeCall.fired) \subseteq {Last(storeHistory.registered)}
          /\ storeCall.op \in Notifying =>
                storeCall.fired = <<Last(storeHistory.registered)>>
    /\ storeHistory.registered = << >> => storeCall.fired = << >>
\* A was registered, then B, and a node was added: B was invoked
C19_SecondCallbackInvoked ==
    /\ storeHistory.registered = << <<"A">>, <<"B">> >>
    /\ storeCall.op = "addExpandedNode"
    /\ storeCall.fired = << <<"B">> >>

\* C20: after restoreExpandedNodesFromSettings(nodes) a string is in the
\* expanded set exactly when it occurs in nodes, whatever the set held before,
\* and the call invoked the registered callback exactly once.
C20_RestoreReplaces ==
    storeCall.op = "restoreExpandedNodesFromSettings"
    => /\ \A node \in StoreNodes :
             node \in expandedNodes
               <=> \E i \in 1..Len(storeCall.nodes) : storeCall.nodes[i] = node
       /\ onStateChange # Null => Len(storeCall.fired) = 1
\* a restore, with a callback registered, that dropped a node expanded before
C20_RestoreDroppedNode ==
    /\ storeCall.op = "restoreExpandedNodesFromSettings"
    /\ onStateChange # Null
    /\ storeCall.before \ NewSet(storeCall.nodes) # {}
    /\ storeCall.nodes # << >>

----------------------------------------------------------------------------
(* Properties of the header button, under SpecExpandAll *)

\* the identifiers of the nodes of the snapshot
Identifiers == {nodes[l].path : l \in DOMAIN nodes \ {Root}}

\* C21: under SpecExpandAll, right after expandAllNodes every identifier of
\* the lookup is in the expanded set and the call has added nothing else; and
\* at any time, nothing being added individually, an identifier of the
\* snapshot that is in the expanded set was in the lookup at a call of
\* expandAllNodes.
C21_ExpandAllByIdentifier ==
    /\ storeCall.op = "expandAllNodes" =>
          /\ Identifiers \subseteq expandedNodes
          /\ expandedNodes \ storeCall.before \subseteq Identifiers
    /\ Identifiers \cap expandedNodes \subseteq storeHistory.expandedAll

\* the saved data holds the expanded set of the store: its elements, read
\* as the constructor reads them, are the elements of the store
PersistedIsStore == NewSet(AsArray(plugin.data)) = expandedNodes

\* C22: the persisted expandedNodes follows the store: after every step that
\* changes the store's expanded set, and after onunload, the saved data
\* holds exactly the store's expanded set.
C22_PersistedFollowsStore ==
    [][(\/ expandedNodes' # expandedNodes
        \/ plugin.phase = "loaded" /\ plugin'.phase = "unloaded")
          => PersistedIsStore']_vars

\* C23: when the saved expandedNodes is not an array of identifiers, the
\* first panel constructed leaves the store's expanded set empty, and
\* nothing has thrown.
C23_WrongShapeStartsEmpty ==
    [][(/\ plugin.view = "none"
        /\ plugin'.view = "constructed"
        /\ plugin.data.shape # "array")
          => (expandedNodes' = {} /\ ~plugin'.threw)]_vars

----------------------------------------------------------------------------
(* Properties of the expand state across refreshes, under Spec *)

\* the names under which the store can hold the active file and its
\* ancestors: identifier, last segment, key of the lookup
NamesOfActive(file) ==
    IF file = Null THEN {}
    ELSE LET ps == DotPrefixes(ToDendronPath(file))
         IN  ps \cup {<<p[Len(p)]>> : p \in ps}
                \cup {[i \in 1..Len(p) |-> IF p[i] = Dot THEN Slash ELSE p[i]] : p \in ps}

\* the step is a run of the debounced refresh on an open panel
RefreshStep ==
    /\ container
    /\ \E t \in timers : t.remaining = 0 /\ timers' = timers \ {t}

\* C24: a refresh, full or incremental, leaves in the expanded set of the
\* store exactly what was in it, for every string that does not name the
\* active file or one of its ancestors, whether or not an item of the tree
\* is rendered for it.
C24_RefreshKeepsExpanded ==
    [][RefreshStep =>
         \A id \in (expandedNodes \cup expandedNodes') \ NamesOfActive(activeFile) :
            id \in expandedNodes' <=> id \in expandedNodes]_vars

\* the store holds the node of identifier p under one of its names
StoredUnderAName(expanded, p) ==
    \/ StoredExpanded(expanded, p)
    \/ [i \in 1..Len(p) |-> IF p[i] = Dot THEN Slash ELSE p[i]] \in expanded

\* C25: the store decides expansion: while the panel is open, every rendered
\* node that has children is rendered expanded iff the expanded set of the
\* store holds it, and its isExpanded flag is true iff the set holds it.
C25_StoreAuthoritative ==
    container =>
        \A l \in DOMAIN dom \cap DOMAIN nodes :
            dom[l].hasChildren =>
                /\ ~dom[l].collapsed <=> StoredUnderAName(expandedNodes, nodes[l].path)
                /\ nodes[l].isExpanded <=> StoredUnderAName(expandedNodes, nodes[l].path)

----------------------------------------------------------------------------
(* Properties of the plugin's life, under SpecPlugin (continued) *)

\* C26: there is one store: once getInstance has made it, the static field
\* keeps it at every step, and after every step every holder of a panel that
\* has been constructed has that same object.
C26_OneStore ==
    [][/\ plugin.instance # NoInstance => plugin'.instance = plugin.instance
       /\ plugin'.constructed > 0 =>
             /\ plugin'.instance # NoInstance
             /\ \A h \in Holders : plugin'.holders[h] = plugin'.instance]_vars

\* a second panel has been constructed, after the first was closed
C26_SecondPanelConstructed ==
    /\ plugin.constructed = 2
    /\ plugin.view = "constructed"

----------------------------------------------------------------------------
(* Properties of the snapshot, under SpecEvents *)

\* the step builds the tree anew: the panel is opened, or a refresh ends in
\* a full rebuild
RebuildStep ==
    \/ ~container /\ container'
    \/ RefreshStep /\ lastRefresh'.rebuilds > 0

\* C27: after every full rebuild the snapshot is new and consistent: the
\* tree has the nodes of a tree built from the vault as it is and no other,
\* and the lookup has one key for every node but the root, each leading to
\* that node of the tree, and no key besides.
C27_RebuildReplacesSnapshot ==
    [][RebuildStep =>
         LET fresh == BuildDendronStructure(GetAllFolders(vault'), GetMarkdownFiles(vault'))
         IN  /\ DOMAIN nodes' = DOMAIN fresh
             /\ \A n \in DOMAIN nodes' :
                   /\ nodes'[n].path = fresh[n].path
                   /\ nodes'[n].nodeType = fresh[n].nodeType
             /\ {nodePathMap'[k] : k \in DOMAIN nodePathMap'} = DOMAIN nodes' \ {Root}
             /\ \A k1, k2 \in DOMAIN nodePathMap' :
                   nodePathMap'[k1] = nodePathMap'[k2] => k1 = k2]_vars

\* a delete has been dispatched and the tree rebuilt, with nodes left in it
\* and the deleted file's name no longer a key of the lookup
C27_RebuiltWithoutDeleted ==
    /\ recording
    /\ fired = 1
    /\ LastOf(window).kind = "delete"
    /\ lastRefresh.rebuilds = 1
    /\ nodePathMap # EmptyMap
    /\ LET id == ToDendronPath(LastOf(window).file.path)
       IN  [i \in 1..Len(id) |-> IF id[i] = Dot THEN Slash ELSE id[i]]
              \notin DOMAIN nodePathMap

----------------------------------------------------------------------------
(* Properties of the tree builder, under SpecBuild *)

\* the entities of a list, and those the builder does not skip
EntitiesOf(list) == {list[i] : i \in 1..Len(list)}
WellFormed(e) == \A i \in 1..Len(Split(e.identifier, Dot)) : Split(e.identifier, Dot)[i] # EmptyStr
\* the identifiers a node can be asked for: those of the nodes and the
\* dot-prefixes of those of the entities
AskedIdentifiers(tree, list) ==
    {tree[n].path : n \in DOMAIN tree}
        \cup UNION {DotPrefixes(e.identifier) : e \in EntitiesOf(list)}
VirtualAt(tree, P) == \E n \in DOMAIN tree : tree[n].path = P /\ tree[n].nodeType = "virtual"
\* P is implied by the entities es and is the identifier of none of them
ImpliedOnly(es, P) ==
    /\ \A e \in es : e.identifier # P
    /\ \E e \in es : P \in StrictAncestors(e.identifier)

DistinctIdentifiers(list) ==
    \A i, j \in 1..Len(list) : list[i].identifier = list[j].identifier => i = j

\* C29: the order of the entities does not matter: for a list of entities
\* with pairwise different identifiers, the tree built from the list and the
\* tree built from the same entities in any other order have the same nodes
\* at the same places, with the same identifier, kind and reference.
C29_OrderIndependent ==
    (result.done /\ DistinctIdentifiers(arg)) =>
        /\ DOMAIN result.tree = DOMAIN result.permuted
        /\ \A n \in DOMAIN result.tree :
              /\ result.tree[n].path = result.permuted[n].path
              /\ result.tree[n].nodeType = result.permuted[n].nodeType
              /\ result.tree[n].obsidianResource = result.permuted[n].obsidianResource

\* an entity and its descendant built in both orders: the node was made
\* from its entity in one build and promoted from a placeholder in the other
C29_PromotedInOneOrder ==
    /\ result.done
    /\ DistinctIdentifiers(arg)
    /\ \E i, j \in 1..Len(arg) :
          /\ i < j
          /\ arg[i].identifier \in StrictAncestors(arg[j].identifier)
          /\ \E k, m \in 1..Len(arg) :
                /\ k > m
                /\ result.permutation[k] = arg[i]
                /\ result.permutation[m] = arg[j]

----------------------------------------------------------------------------
(* Properties of the snapshot, under SpecEvents (continued) *)

\* the places of the nodes of a tree with their identifiers and kinds
Shape(tree) == {<<n, tree[n].path, tree[n].nodeType>> : n \in DOMAIN tree}
ShapeBeforeDelete ==
    {<<<< <<"a">> >>, <<"a">>, "virtual">>,
     <<<< <<"a">>, <<"b">> >>, StripMd(F_ab), "file">>,
     <<<< <<"a">>, <<"b">>, <<"c">> >>, StripMd(F_abc), "file">>}
ShapeAfterDelete ==
    {<<<< <<"a">> >>, <<"a">>, "virtual">>,
     <<<< <<"a">>, <<"b">> >>, StripMd(F_ab), "virtual">>,
     <<<< <<"a">>, <<"b">>, <<"c">> >>, StripMd(F_abc), "file">>}
\* the panel is open and no refresh is pending
Settled == container /\ timers = {}
\* the last event was the deletion of a.b.md, which left a.b.c.md alone
DeletedAB ==
    /\ recording
    /\ window # << >>
    /\ LastOf(window) = Event("delete", MdFile(F_ab))
    /\ vault = {F_abc}

\* C30: the panel opened on the files a.b.md and a.b.c.md has the tree a
\* (virtual) > a.b (file) > a.b.c (file), and once a deletion of a.b.md that
\* leaves a.b.c.md has been dispatched, by a forced full rebuild, the tree is
\* a (virtual) > a.b (virtual) > a.b.c (file).
C30_DeletedNodeBecomesVirtual ==
    /\ (Settled /\ window = << >> /\ vault = {F_ab, F_abc}) =>
          Shape(nodes) = ShapeBeforeDelete
    /\ (Settled /\ DeletedAB) =>
          /\ Shape(nodes) = ShapeAfterDelete
          /\ lastCall.forceFullRefresh
          /\ lastRefresh.rebuilds = 1

\* the deletion of a.b.md from the two files has been dispatched
C30_DeleteOfABDispatched ==
    /\ Settled
    /\ DeletedAB
    /\ Len(window) = 1
    /\ fired = 1

----------------------------------------------------------------------------
(* Properties of the header button, under SpecExpandAll (continued) *)

\* C31: after collapseAllNodes nothing is expanded: the expanded set of the
\* store is empty, areAllNodesCollapsed is true, every node of the lookup
\* has isExpanded false and every rendered item is collapsed.
C31_CollapseAllLeavesNothingExpanded ==
    storeCall.op = "collapseAllNodes" =>
        /\ expandedNodes = {}
        /\ AreAllNodesCollapsed(expandedNodes)
        /\ \A k \in DOMAIN nodePathMap : ~nodes[nodePathMap[k]].isExpanded
        /\ \A l \in DOMAIN dom : dom[l].collapsed

\* collapseAllNodes has run on a tree with items, with a store that was not
\* empty
C31_CollapsedAfterExpanded ==
    /\ storeCall.op = "collapseAllNodes"
    /\ storeCall.before # {}
    /\ dom # EmptyMap

----------------------------------------------------------------------------
(* Properties of the highlight, under SpecReveal *)

\* C32: a file opened by a click in the tree never has a scroll scheduled,
\* neither by the highlight of openFile nor by the highlight of the
\* file-open event that follows; only the highlight of highlightFile
\* schedules one.
C32_NoScrollAfterClick ==
    /\ workspace.scroll.fromClick => ~workspace.scroll.scheduled
    /\ workspace.scroll.scheduled => workspace.scroll.cause = "highlightFile"

----------------------------------------------------------------------------
(* Properties of tryIncrementalUpdate, under SpecPatch (continued) *)

\* C33: a call of tryIncrementalUpdate for a changed path whose identifier
\* is a key of the lookup, the node under it having no children, returns
\* true, given a container, a snapshot and a render callback that does not
\* throw.
C33_LeafPatched ==
    (/\ result.done
     /\ container
     /\ lastBuiltTree # Null
     /\ ~renderThrows
     /\ arg # Undefined
     /\ ToDendronPath(arg) \in DOMAIN nodePathMap
     /\ Children(nodes, nodePathMap[ToDendronPath(arg)]) = {})
        => result.ok

----------------------------------------------------------------------------
(* Properties of the debounce, under SpecEvents (continued) *)

\* C34: the one dispatch of a window covers every modify event of the
\* window: for each of them, the refresh dispatched has rebuilt the whole
\* tree or was called with the path of that event.
C34_DispatchCoversModified ==
    (recording /\ fired = 1) =>
        \A i \in 1..Len(window) :
            window[i].kind = "modify" =>
                \/ lastRefresh.rebuilds > 0
                \/ lastCall.path = window[i].file.path

\* C35: at most one debounce timer is pending, refreshTimerId is non-null
\* exactly while one is pending, and that is exactly when an accepted event
\* has arrived since the last dispatch (or since the start).
C35_OnePendingTimer ==
    recording =>
        /\ Cardinality(timers) <= 1
        /\ (refreshTimerId # NoTimer) <=> (timers # {})
        /\ (refreshTimerId # NoTimer) <=> (window # << >> /\ fired = 0)

\* the second event of a window has replaced the timer of the first, and
\* the one timer left is running down
C35_RearmedAfterDispatch ==
    /\ recording
    /\ Len(window) = 2
    /\ fired = 0
    /\ Cardinality(timers) = 1
    /\ lastBuiltTree # Null
    /\ \E t \in timers : t.id = refreshTimerId /\ t.remaining < Wait

----------------------------------------------------------------------------
(* Properties of the closed panel, under SpecClose *)

\* the step is a run of the debounced refresh on a closed panel
ClosedRefreshStep ==
    /\ plugin.view = "closed"
    /\ \E t \in timers : t.remaining = 0 /\ timers' = timers \ {t}

\* C36: once the view is closed, a refresh run by a timer, armed before the
\* close or by an event after it, neither rebuilds nor patches the tree and
\* leaves the snapshot, the lookup, the rendered items, the expanded set of
\* the store and the settings as they were.
C36_RefreshAfterCloseNoOp ==
    [][ClosedRefreshStep =>
         /\ lastRefresh'.ran
         /\ lastRefresh'.rebuilds = 0
         /\ ~lastRefresh'.patched
         /\ UNCHANGED <<lastBuiltTree, nodes, nodePathMap, fileItemsMap, dom,
                        detached, expandedNodes>>
         /\ plugin'.settings = plugin.settings]_vars

\* a refresh has run on the closed panel and no timer is left, the store
\* holding expanded nodes and the vault files
C36_RefreshRanClosed ==
    /\ plugin.view = "closed"
    /\ lastRefresh.ran
    /\ ~lastRefresh.saved
    /\ ~lastRefresh.tried
    /\ timers = {}
    /\ expandedNodes # {}
    /\ vault # {}

----------------------------------------------------------------------------
(* Properties of the active file, under SpecReveal (continued) *)

\* C37: once the handler of file-open has run for a file, that file is the
\* active file of the store, isNodeActive holds of its path and of no other,
\* and the item highlightActiveFile has marked active is the item of that
\* file, if it has one.
C37_FileOpenSetsActive ==
    workspace.scroll.cause = "file-open" =>
        LET F == workspace.panelActiveFile
        IN  /\ activeFile = F
            /\ \A f \in Files : IsNodeActive(activeFile, f) <=> f = F
            /\ \A l \in DOMAIN dom :
                  dom[l].active =>
                      F \in DOMAIN fileItemsMap /\ fileItemsMap[F].loc = l

----------------------------------------------------------------------------
(* Properties of the plugin's life, under SpecPlugin (continued) *)

\* C38: right after the constructor of the panel that follows a closed one,
\* the expanded set of the store is the set the store held when onClose of
\* the closed panel began.
C38_ReopenKeepsExpanded ==
    (plugin.view = "constructed" /\ plugin.constructed = 2) =>
        expandedNodes = plugin.beforeClose

----------------------------------------------------------------------------
(* Properties of activateView, under SpecActivate *)

\* C39: whatever calls of activateView have been made, one after the other
\* or while an earlier one waits for setViewState, at most one leaf has the
\* type of the tree view, and a call that found a leaf of the type has
\* created none and revealed the one it found.
C39_OneTreeLeaf ==
    /\ Cardinality(GetLeavesOfType(workspace.leaves, FILE_TREE_VIEW_TYPE)) <= 1
    /\ \A c \in 1..Len(workspace.calls) :
          workspace.calls[c].existing # 0 =>
              /\ workspace.calls[c].leaf = 0
              /\ workspace.leaves[workspace.calls[c].existing].revealed

====
